---- MODULE Spec2Model ----
(***************************************************************************)
(* A model of the AI-Ready File Converter (evercrisp-ai).                  *)
(*                                                                         *)
(* Five state machines share this module:                                  *)
(*   - the extraction cache of BaseConverter (convert / to_markdown /      *)
(*     to_json / get_output) under one caller (SpecSeq) and under two      *)
(*     interleaved threads (SpecConc);                                     *)
(*   - the forward extractors and their renderers (SpecForward);           *)
(*   - the line loop of MarkdownToDocxConverter (SpecReverse);             *)
(*   - the upload, set-format and convert handlers of the web application  *)
(*     over the converter registry (SpecBatch);                            *)
(*   - every request handler of the web application with the expiry sweep  *)
(*     and a clock (SpecWeb).                                              *)
(* Text is a sequence of one-character strings, so that split, strip,      *)
(* startswith and the regular expressions are computed, not assumed.       *)
(***************************************************************************)
EXTENDS Integers, Sequences, FiniteSets, TLC

VARIABLES
    content,      \* BaseConverter._content: None or the cached content model
    extractLog,   \* the spy on _extract_content: one entry per invocation
    callLog,      \* one entry per finished public call
    started,      \* number of public calls started
    pc,           \* per thread: where it stands inside convert()
    op,           \* per thread: the public method it runs
    val,          \* per thread: the value _extract_content returned to it
    lines,        \* reverse converter: content.split('\n')
    i,            \* reverse converter: the cursor of the line loop (0-based)
    doc,          \* reverse converter: the elements added to the document
    revIn,        \* reverse converter: the text it was given and where it came from
    src,          \* forward converter: the source file
    fpc,          \* forward converter: "source", "extracted", "raised", "rendered", "json"
    extracted,    \* forward converter: the content model _extract_content built
    metadata,     \* forward converter: self._metadata
    output,       \* forward converter: what to_markdown / to_json returned
    work,         \* image converter: the content dictionary under construction
    sessions,     \* main.py: the session registry; None for an id not handed out
                  \* yet, Popped for one the sweep removed
    pending,      \* main.py: upload requests suspended at await file.read()
    orphans,      \* session dicts the registry dropped that a suspended upload holds
    disk,         \* the files under UPLOAD_DIR
    reply,        \* what the last finished request handler returned or raised
    now           \* datetime.now(timezone.utc), in minutes

cacheVars == <<content, extractLog, callLog, started, pc, op, val>>

revVars == <<lines, i, doc, revIn>>

fwdVars == <<src, fpc, extracted, metadata, output, work>>

webVars == <<sessions, pending, orphans, disk, reply, now>>

vars == <<cacheVars, revVars, fwdVars, webVars>>

\* the session ids uuid.uuid4() hands out (main.py:112)
SessionIds == {"s1"}

\* Python's None, comparable with every content model
None == [tag |-> "None"]

\* Python's None where a str may stand: no text holds it, a text being a
\* sequence of one-character strings
NoneText == <<"None">>

\* ------------------------------------------------------------------------
\* Bounds
\* ------------------------------------------------------------------------
MaxCalls == 3

MaxLines == 3

\* the longest sequence of elements, pages, slides or rows in a source file
MaxItems == 2

\* the most sheets in a workbook
MaxSheets == 2

\* ------------------------------------------------------------------------
\* Text: Python str as a sequence of one-character strings
\* ------------------------------------------------------------------------
NL == "\n"

\* the characters str.strip() removes and the regex class \s matches
Whitespace == {" ", "\t", "\r", NL}

Digits == {"0", "1", "2", "3", "4", "5", "6", "7", "8", "9"}

\* s[a:b] with 1-based inclusive bounds; empty when a > b
Slice(s, a, b) == IF a > b THEN <<>> ELSE SubSeq(s, a, b)

\* s[n:] (0-based n, as in Python)
From(s, n) == Slice(s, n + 1, Len(s))

\* str.startswith
StartsWith(s, p) == Len(s) >= Len(p) /\ SubSeq(s, 1, Len(p)) = p

\* str.endswith
EndsWith(s, p) == Len(s) >= Len(p) /\ SubSeq(s, Len(s) - Len(p) + 1, Len(s)) = p

\* c in s
Contains(s, c) == \E k \in DOMAIN s : s[k] = c

\* length of the longest prefix of s whose characters all lie in class
PrefixLen(s, class) ==
    CHOOSE n \in 0..Len(s) :
        /\ \A k \in 1..n : s[k] \in class
        /\ (n = Len(s) \/ s[n + 1] \notin class)

\* length of the longest suffix of s whose characters all lie in class
SuffixLen(s, class) ==
    CHOOSE n \in 0..Len(s) :
        /\ \A k \in (Len(s) - n + 1)..Len(s) : s[k] \in class
        /\ (n = Len(s) \/ s[Len(s) - n] \notin class)

\* str.lstrip()
LStrip(s) == From(s, PrefixLen(s, Whitespace))

\* str.rstrip()
RStrip(s) == Slice(s, 1, Len(s) - SuffixLen(s, Whitespace))

\* str.strip()
Strip(s) == RStrip(LStrip(s))

\* str.split(sep) for a one-character separator: the pieces between the
\* occurrences of sep, always at least one piece
Split(s, sep) ==
    LET at == {k \in DOMAIN s : s[k] = sep}
        n == Cardinality(at)
        \* position of the j-th separator; 0 before the first, Len(s)+1 after the last
        pos(j) == IF j = 0 THEN 0
                  ELSE IF j = n + 1 THEN Len(s) + 1
                  ELSE CHOOSE p \in at : Cardinality({q \in at : q < p}) = j - 1
    IN [j \in 1..(n + 1) |-> Slice(s, pos(j - 1) + 1, pos(j) - 1)]

RECURSIVE Join(_, _)
\* sep.join(parts)
Join(parts, sep) ==
    IF parts = <<>> THEN <<>>
    ELSE IF Len(parts) = 1 THEN parts[1]
    ELSE parts[1] \o sep \o Join(Tail(parts), sep)

\* c * n for a one-character string
Repeat(c, n) == [k \in 1..n |-> c]

\* ------------------------------------------------------------------------
\* BaseConverter: the extraction cache (src/converters/base.py)
\* ------------------------------------------------------------------------
Threads == {1, 2}

Formats == {"md", "json", "JSON", "docx"}

\* str.lower() on the format names a caller passes
Lower(s) == IF s = "JSON" THEN "json" ELSE s

\* get_output: format.lower() == 'json' selects to_json, anything else to_markdown
GetOutputTarget(fmt) == IF Lower(fmt) = "json" THEN "to_json" ELSE "to_markdown"

\* the public entry points and the method each ends up running
EntryPoints ==
    {[entry |-> "convert", runs |-> "convert"],
     [entry |-> "to_markdown", runs |-> "to_markdown"],
     [entry |-> "to_json", runs |-> "to_json"]}
    \cup {[entry |-> "get_output", runs |-> GetOutputTarget(f)] : f \in Formats}

NeedsExtractionAlways(c) == TRUE

\* convert(): if self._content is None
NeedsExtraction(c) == c = None

ContentAfterRaisePartial(c) == [tag |-> "content", id |-> 0]

\* convert(): _extract_content raised, the assignment never ran
ContentAfterRaise(c) == c

\* no Markdown file is being converted back
RevIdle ==
    /\ lines = <<>>
    /\ i = 0
    /\ doc = <<>>
    /\ revIn = [from |-> "none"]

\* no source file is being converted
FwdIdle ==
    /\ src = [kind |-> "none"]
    /\ fpc = "idle"
    /\ extracted = None
    /\ metadata = None
    /\ output = None
    /\ work = None

\* the module-level state of main.py right after import: no session, nothing
\* under UPLOAD_DIR, no request in flight
WebIdle ==
    /\ sessions = [s \in SessionIds |-> None]
    /\ pending = <<>>
    /\ orphans = {}
    /\ disk = {}
    /\ reply = [handler |-> "none"]
    /\ now = 0

CacheInit ==
    /\ content = None
    /\ extractLog = <<>>
    /\ callLog = <<>>
    /\ started = 0
    /\ pc = [t \in Threads |-> "idle"]
    /\ op = [t \in Threads |-> "none"]
    /\ val = [t \in Threads |-> None]

\* a caller invokes convert(), to_markdown(), to_json() or get_output(fmt)
Call(t) ==
    /\ pc[t] = "idle"
    /\ started < MaxCalls
    /\ \E e \in EntryPoints :
          op' = [op EXCEPT ![t] = e.runs]
    /\ started' = started + 1
    /\ val' = [val EXCEPT ![t] = None]
    /\ pc' = [pc EXCEPT ![t] = "check"]
    /\ UNCHANGED <<content, extractLog, callLog>>
    /\ UNCHANGED <<revVars, fwdVars, webVars>>

\* base.py:83  if self._content is None
Check(t) ==
    /\ pc[t] = "check"
    /\ pc' = [pc EXCEPT ![t] = IF NeedsExtraction(content) THEN "extract" ELSE "return"]
    /\ UNCHANGED <<content, extractLog, callLog, started, op, val>>
    /\ UNCHANGED <<revVars, fwdVars, webVars>>

\* base.py:84  the call self._extract_content(): it returns a fresh content
\* model or raises; a raise leaves convert() and the public method
Extract(t) ==
    /\ pc[t] = "extract"
    /\ \E outcome \in {"ok", "raise"} :
          /\ extractLog' = Append(extractLog, [thread |-> t, outcome |-> outcome])
          /\ IF outcome = "ok"
                THEN /\ val' = [val EXCEPT ![t] = [tag |-> "content", id |-> Len(extractLog) + 1]]
                     /\ pc' = [pc EXCEPT ![t] = "assign"]
                     /\ UNCHANGED <<content, callLog>>
                ELSE /\ content' = ContentAfterRaise(content)
                     /\ callLog' = Append(callLog,
                            [thread |-> t, op |-> op[t], outcome |-> "raised",
                             content |-> None, extracted |-> TRUE,
                             cacheAfter |-> ContentAfterRaise(content)])
                     /\ pc' = [pc EXCEPT ![t] = "idle"]
                     /\ UNCHANGED val
    /\ UNCHANGED <<started, op>>
    /\ UNCHANGED <<revVars, fwdVars, webVars>>

\* base.py:84  the assignment self._content = <value>
Assign(t) ==
    /\ pc[t] = "assign"
    /\ content' = val[t]
    /\ pc' = [pc EXCEPT ![t] = "return"]
    /\ UNCHANGED <<extractLog, callLog, started, op, val>>
    /\ UNCHANGED <<revVars, fwdVars, webVars>>

\* base.py:85  return self._content, then the renderer of to_markdown /
\* to_json runs on the returned model (base.py:94-103, 112-114)
Return(t) ==
    /\ pc[t] = "return"
    /\ callLog' = Append(callLog,
            [thread |-> t, op |-> op[t], outcome |-> "returned",
             content |-> content, extracted |-> (val[t] # None),
             cacheAfter |-> content])
    /\ pc' = [pc EXCEPT ![t] = "idle"]
    /\ UNCHANGED <<content, extractLog, started, op, val>>
    /\ UNCHANGED <<revVars, fwdVars, webVars>>

CacheStep(t) == Call(t) \/ Check(t) \/ Extract(t) \/ Assign(t) \/ Return(t)

\* one caller: every call finishes before the next starts
NextSeq == \E t \in {1} : CacheStep(t)

InitCache == CacheInit /\ RevIdle /\ FwdIdle /\ WebIdle

SpecSeq == InitCache /\ [][NextSeq]_vars

\* two threads share the converter instance
NextConc == \E t \in Threads : CacheStep(t)

SpecConc == InitCache /\ [][NextConc]_vars

\* ------------------------------------------------------------------------
\* MarkdownToDocxConverter (src/converters/reverse/md_to_docx.py)
\* ------------------------------------------------------------------------
NoMatch == [ok |-> FALSE]

\* a hash and a space
HashSpace == <<"#", " ">>

\* the start of the provenance line
ConvertedFromPrefix == <<">", " ", "C", "o", "n", "v", "e", "r", "t", "e", "d", " ", "f", "r", "o", "m">>

\* the backtick character, which a TLA+ string cannot hold
BT == "backtick"

\* three backticks
Fence == <<BT, BT, BT>>

\* three dashes
RuleLine == <<"-", "-", "-">>

\* the group (.+) that follows \s+ at the end of a pattern: \s+ is greedy and
\* gives one character back when nothing else is left for (.+)
SpacesThenText(rest) ==
    LET w == PrefixLen(rest, Whitespace) IN
    IF w = 0 THEN NoMatch
    ELSE IF w < Len(rest) THEN [ok |-> TRUE, text |-> From(rest, w)]
    ELSE IF w >= 2 THEN [ok |-> TRUE, text |-> <<rest[w]>>]
    ELSE NoMatch

\* smallest p >= from with text[p] = c, 0 when there is none
FindChar(text, from, c) ==
    LET hits == {p \in from..Len(text) : text[p] = c} IN
    IF hits = {} THEN 0 ELSE CHOOSE p \in hits : \A q \in hits : p <= q

\* smallest p >= from with text[p] = c and text[p+1] = d, 0 when there is none
FindPair(text, from, c, d) ==
    LET hits == {p \in from..(Len(text) - 1) : text[p] = c /\ text[p + 1] = d} IN
    IF hits = {} THEN 0 ELSE CHOOSE p \in hits : \A q \in hits : p <= q

\* the pattern of _add_formatted_text tried at position s (1-based):
\* bold, italic, inline code, link, in this order: the first alternative
\* that matches wins, each (.+?) as short as possible
InlineMatchAt(text, s) ==
    LET bold == IF text[s] = "*" /\ s + 1 <= Len(text) /\ text[s + 1] = "*"
                   THEN FindPair(text, s + 3, "*", "*") ELSE 0
        ital == IF text[s] = "*" THEN FindChar(text, s + 2, "*") ELSE 0
        code == IF text[s] = BT THEN FindChar(text, s + 2, BT) ELSE 0
        lnk  == IF text[s] = "[" THEN FindPair(text, s + 2, "]", "(") ELSE 0
        lend == IF lnk > 0 THEN FindChar(text, lnk + 3, ")") ELSE 0
    IN
    IF bold > 0 THEN
        [ok |-> TRUE, start |-> s, end |-> bold + 1, alt |-> 2,
         group |-> Slice(text, s + 2, bold - 1), url |-> <<>>]
    ELSE IF ital > 0 THEN
        [ok |-> TRUE, start |-> s, end |-> ital, alt |-> 3,
         group |-> Slice(text, s + 1, ital - 1), url |-> <<>>]
    ELSE IF code > 0 THEN
        [ok |-> TRUE, start |-> s, end |-> code, alt |-> 4,
         group |-> Slice(text, s + 1, code - 1), url |-> <<>>]
    ELSE IF lend > 0 THEN
        [ok |-> TRUE, start |-> s, end |-> lend, alt |-> 5,
         group |-> Slice(text, s + 1, lnk - 1), url |-> Slice(text, lnk + 2, lend - 1)]
    ELSE NoMatch

\* re.finditer: the leftmost match starting at or after position from
InlineNextMatch(text, from) ==
    LET hits == {s \in from..Len(text) : InlineMatchAt(text, s).ok} IN
    IF hits = {} THEN NoMatch
    ELSE InlineMatchAt(text, CHOOSE s \in hits : \A q \in hits : s <= q)

\* the run one match adds: the style is decided on the matched text
\* (startswith / endswith), the run's text is the group of that style, which is
\* None (an empty run) when another alternative matched
StyledRun(text, m) ==
    LET full == SubSeq(text, m.start, m.end) IN
    IF StartsWith(full, <<"*", "*">>) /\ EndsWith(full, <<"*", "*">>) THEN
        [style |-> "bold", text |-> IF m.alt = 2 THEN m.group ELSE <<>>, url |-> <<>>]
    ELSE IF StartsWith(full, <<"*">>) /\ EndsWith(full, <<"*">>) THEN
        [style |-> "italic", text |-> IF m.alt = 3 THEN m.group ELSE <<>>, url |-> <<>>]
    ELSE IF StartsWith(full, <<BT>>) /\ EndsWith(full, <<BT>>) THEN
        [style |-> "code", text |-> IF m.alt = 4 THEN m.group ELSE <<>>, url |-> <<>>]
    ELSE
        [style |-> "link", text |-> m.group, url |-> m.url]

PlainRun(t) == [style |-> "plain", text |-> t, url |-> <<>>]

RECURSIVE RunsFrom(_, _)
\* the loop of _add_formatted_text with last_end (0-based end of the last match)
RunsFrom(text, lastEnd) ==
    LET m == InlineNextMatch(text, lastEnd + 1) IN
    IF ~m.ok THEN
        IF lastEnd < Len(text) THEN <<PlainRun(From(text, lastEnd))>> ELSE <<>>
    ELSE
        (IF m.start - 1 > lastEnd
            THEN <<PlainRun(SubSeq(text, lastEnd + 1, m.start - 1))>> ELSE <<>>)
        \o <<StyledRun(text, m)>>
        \o RunsFrom(text, m.end)

\* _add_formatted_text: the runs added to the paragraph, in order
AddFormattedText(text) == RunsFrom(text, 0)

\* lines[k] with Python's 0-based index
LineAt(ls, k) == ls[k + 1]

\* the end of the run of lines that starts at index k and whose indexes lie in
\* S: the first index >= k that is not in S, or len(lines)
RunEnd(ls, k, S) ==
    CHOOSE j \in k..Len(ls) :
        /\ (j = Len(ls) \/ j \notin S)
        /\ \A m \in k..(j - 1) : m \in S

\* md_to_docx.py:93-95  the header block of a converted file
HeaderStripApplies(ls, k) ==
    /\ StartsWith(LineAt(ls, k), HashSpace)
    /\ k = 0
    /\ k + 1 < Len(ls)
    /\ StartsWith(LineAt(ls, k + 1), ConvertedFromPrefix)

\* the skip without the step over the blank line after the rule
HeaderStripNextKeepsBlank(ls, k) ==
    LET notRule == {j \in 0..(Len(ls) - 1) : LineAt(ls, j) # RuleLine}
    IN RunEnd(ls, k + 1, notRule) + 1

\* md_to_docx.py:97-102  skip to the first line equal to '---', past it and past
\* one blank line
HeaderStripNext(ls, k) ==
    LET notRule == {j \in 0..(Len(ls) - 1) : LineAt(ls, j) # RuleLine}
        r == RunEnd(ls, k + 1, notRule) + 1
    IN IF r < Len(ls) /\ Strip(LineAt(ls, r)) = <<>> THEN r + 1 ELSE r

\* md_to_docx.py:106
IsFenceLine(l) == StartsWith(l, Fence)

\* md_to_docx.py:120
IsTableStart(l) == StartsWith(l, <<"|">>) /\ Contains(From(l, 1), "|")

\* _parse_table_row: strip, drop one leading and one trailing pipe, split on
\* pipes, strip every cell
ParseTableRow(l) ==
    LET a == Strip(l)
        b == IF StartsWith(a, <<"|">>) THEN From(a, 1) ELSE a
        c == IF EndsWith(b, <<"|">>) THEN SubSeq(b, 1, Len(b) - 1) ELSE b
        cells == Split(c, "|")
    IN [k \in DOMAIN cells |-> Strip(cells[k])]

\* md_to_docx.py:291  ^\|[\s\-:|]+\|$
IsSeparatorRow(l) ==
    /\ Len(l) >= 3
    /\ l[1] = "|"
    /\ l[Len(l)] = "|"
    /\ \A k \in 2..(Len(l) - 1) : l[k] \in (Whitespace \cup {"-", ":", "|"})

\* a table row that takes the parsed cells as they come
FitRowAsParsed(cells, cols) == cells

\* the cells of one generated table row: the text put in column c, blank when
\* the parsed row is shorter, cells beyond the column count dropped
FitRow(cells, cols) == [c \in 1..cols |-> IF c <= Len(cells) THEN cells[c] ELSE <<>>]

\* _add_table: the elements it adds to the document (none for fewer than two
\* lines), the table followed by one empty paragraph
AddTable(tableLines) ==
    IF Len(tableLines) < 2 THEN <<>>
    ELSE
        LET header == ParseTableRow(tableLines[1]) IN
        IF header = <<>> THEN <<>>
        ELSE
            LET dataStart == IF IsSeparatorRow(tableLines[2]) THEN 3 ELSE 2
                dataLines == Slice(tableLines, dataStart, Len(tableLines))
                dataRows == [k \in DOMAIN dataLines |-> ParseTableRow(dataLines[k])]
                cols == Len(header)
            IN <<[kind |-> "table", cols |-> cols, nrows |-> 1 + Len(dataRows),
                  header |-> FitRow(header, cols),
                  rows |-> [k \in DOMAIN dataRows |-> FitRow(dataRows[k], cols)]],
                 [kind |-> "paragraph", runs |-> <<>>]>>

\* md_to_docx.py:130  ^(#{1,6})\s+(.+)$
HeadingMatch(l) ==
    LET h == PrefixLen(l, {"#"})
        t == SpacesThenText(From(l, h))
    IN IF h >= 1 /\ h <= 6 /\ t.ok THEN [ok |-> TRUE, level |-> h, text |-> t.text]
       ELSE NoMatch

MinOf(a, b) == IF a < b THEN a ELSE b

\* md_to_docx.py:142  ^(-{3,}|\*{3,}|_{3,})$ on line.strip()
IsHorizontalRule(l) ==
    LET t == Strip(l) IN
    /\ Len(t) >= 3
    /\ \E c \in {"-", "*", "_"} : \A k \in DOMAIN t : t[k] = c

\* md_to_docx.py:150  ^[\s]*[-*+]\s+
IsUnorderedItem(l) ==
    LET rest == From(l, PrefixLen(l, Whitespace)) IN
    /\ rest # <<>>
    /\ rest[1] \in {"-", "*", "+"}
    /\ PrefixLen(From(rest, 1), Whitespace) >= 1

\* md_to_docx.py:153-156  ^([\s]*)[-*+]\s+(.+)$ and the indent of the item
UnorderedItem(l) ==
    LET w == PrefixLen(l, Whitespace)
        t == SpacesThenText(From(l, w + 1))
    IN IF t.ok THEN <<[kind |-> "bullet", indent |-> w \div 2,
                       runs |-> AddFormattedText(t.text)]>>
       ELSE <<>>

\* md_to_docx.py:166  ^[\s]*\d+\.\s+
IsOrderedItem(l) ==
    LET rest == From(l, PrefixLen(l, Whitespace))
        d == PrefixLen(rest, Digits)
    IN /\ d >= 1
       /\ Len(rest) > d
       /\ rest[d + 1] = "."
       /\ PrefixLen(From(rest, d + 1), Whitespace) >= 1

\* md_to_docx.py:169-172  ^([\s]*)\d+\.\s+(.+)$ and the indent of the item
OrderedItem(l) ==
    LET w == PrefixLen(l, Whitespace)
        d == PrefixLen(From(l, w), Digits)
        t == SpacesThenText(From(l, w + d + 1))
    IN IF t.ok THEN <<[kind |-> "number", indent |-> w \div 2,
                       runs |-> AddFormattedText(t.text)]>>
       ELSE <<>>

\* md_to_docx.py:182
IsQuoteLine(l) == StartsWith(l, <<">">>)

\* md_to_docx.py:185-195  re.sub(r'^>\s*', '', line) in one italic run
QuoteParagraph(l) == [kind |-> "quote", text |-> LStrip(From(l, 1))]

RECURSIVE Flatten(_)
\* the concatenation of a sequence of sequences
Flatten(ss) == IF ss = <<>> THEN <<>> ELSE Head(ss) \o Flatten(Tail(ss))

\* md_to_docx.py:115-116  one CodeBlock paragraph per captured line
CodeParagraph(l) == [kind |-> "code", text |-> l]

\* the 0-based indexes of the lines
Indexes(ls) == 0..(Len(ls) - 1)

\* which rule of the loop body handles the line at the cursor, in the order the
\* code tests them
RuleAt(ls, k) ==
    LET l == LineAt(ls, k) IN
    IF HeaderStripApplies(ls, k) THEN "header"
    ELSE IF IsFenceLine(l) THEN "code"
    ELSE IF IsTableStart(l) THEN "table"
    ELSE IF HeadingMatch(l).ok THEN "heading"
    ELSE IF IsHorizontalRule(l) THEN "rule"
    ELSE IF IsUnorderedItem(l) THEN "ulist"
    ELSE IF IsOrderedItem(l) THEN "olist"
    ELSE IF IsQuoteLine(l) THEN "quote"
    ELSE IF Strip(l) = <<>> THEN "blank"
    ELSE "paragraph"

\* the branches of the loop body of _convert_markdown_to_doc at cursor k: each
\* gives the cursor after it and the elements it adds to the document

\* md_to_docx.py:93-103
HeaderRule(ls, k) == [next |-> HeaderStripNext(ls, k), out |-> <<>>]

\* the code-block branch without the i += 1 that skips the closing fence
CodeRuleKeepsFence(ls, k) ==
    LET e == RunEnd(ls, k + 1, {j \in Indexes(ls) : ~IsFenceLine(LineAt(ls, j))})
        got == Slice(ls, k + 2, e)
    IN [next |-> e, out |-> [n \in DOMAIN got |-> CodeParagraph(got[n])]]

\* md_to_docx.py:106-117
CodeRule(ls, k) ==
    LET e == RunEnd(ls, k + 1, {j \in Indexes(ls) : ~IsFenceLine(LineAt(ls, j))})
        got == Slice(ls, k + 2, e)
    IN [next |-> e + 1, out |-> [n \in DOMAIN got |-> CodeParagraph(got[n])]]

\* md_to_docx.py:120-127
TableRule(ls, k) ==
    LET e == RunEnd(ls, k, {j \in Indexes(ls) : StartsWith(LineAt(ls, j), <<"|">>)})
    IN [next |-> e, out |-> AddTable(Slice(ls, k + 1, e))]

\* md_to_docx.py:130-139
HeadingRule(ls, k) ==
    LET m == HeadingMatch(LineAt(ls, k))
    IN [next |-> k + 1,
        out |-> <<[kind |-> "heading", level |-> MinOf(m.level, 9),
                   runs |-> AddFormattedText(m.text)]>>]

\* md_to_docx.py:142-147
HorizontalRuleRule(ls, k) == [next |-> k + 1, out |-> <<[kind |-> "rule"]>>]

\* md_to_docx.py:150-163
UnorderedListRule(ls, k) ==
    LET e == RunEnd(ls, k, {j \in Indexes(ls) : IsUnorderedItem(LineAt(ls, j))})
        got == Slice(ls, k + 1, e)
    IN [next |-> e, out |-> Flatten([n \in DOMAIN got |-> UnorderedItem(got[n])])]

\* md_to_docx.py:166-179
OrderedListRule(ls, k) ==
    LET e == RunEnd(ls, k, {j \in Indexes(ls) : IsOrderedItem(LineAt(ls, j))})
        got == Slice(ls, k + 1, e)
    IN [next |-> e, out |-> Flatten([n \in DOMAIN got |-> OrderedItem(got[n])])]

\* md_to_docx.py:182-196
BlockquoteRule(ls, k) ==
    LET e == RunEnd(ls, k, {j \in Indexes(ls) : IsQuoteLine(LineAt(ls, j))})
        got == Slice(ls, k + 1, e)
    IN [next |-> e, out |-> [n \in DOMAIN got |-> QuoteParagraph(got[n])]]

\* the blank-line branch without its i += 1
BlankRuleStays(ls, k) == [next |-> k, out |-> <<>>]

\* md_to_docx.py:199-201
BlankRule(ls, k) == [next |-> k + 1, out |-> <<>>]

\* md_to_docx.py:204-206
ParagraphRule(ls, k) ==
    [next |-> k + 1,
     out |-> <<[kind |-> "paragraph", runs |-> AddFormattedText(LineAt(ls, k))]>>]

\* one iteration of the while loop of _convert_markdown_to_doc at cursor k
LoopBody(ls, k) ==
    LET rule == RuleAt(ls, k) IN
    CASE rule = "header" -> HeaderRule(ls, k)
      [] rule = "code" -> CodeRule(ls, k)
      [] rule = "table" -> TableRule(ls, k)
      [] rule = "heading" -> HeadingRule(ls, k)
      [] rule = "rule" -> HorizontalRuleRule(ls, k)
      [] rule = "ulist" -> UnorderedListRule(ls, k)
      [] rule = "olist" -> OrderedListRule(ls, k)
      [] rule = "quote" -> BlockquoteRule(ls, k)
      [] rule = "blank" -> BlankRule(ls, k)
      [] OTHER -> ParagraphRule(ls, k)

RECURSIVE ConvertFrom(_, _)
\* _convert_markdown_to_doc run to the end from cursor k: the elements added
ConvertFrom(ls, k) ==
    IF k >= Len(ls) THEN <<>>
    ELSE LET b == LoopBody(ls, k) IN b.out \o ConvertFrom(ls, b.next)

\* _convert_markdown_to_doc(doc, content) on a whole text
ConvertMarkdown(text) == ConvertFrom(Split(text, NL), 0)

\* ------------------------------------------------------------------------
\* BaseConverter.to_markdown: the header block (src/converters/base.py)
\* ------------------------------------------------------------------------
HeaderBlockTight(filename, fileType, ts) ==
    HashSpace \o filename \o <<NL>>
    \o <<">", " ", "C", "o", "n", "v", "e", "r", "t", "e", "d", " ", "f", "r", "o", "m", " ">> \o fileType \o <<" ", "o", "n", " ">> \o ts \o <<NL>>
    \o RuleLine \o <<NL, NL>>

\* base.py:97-99  the title, the provenance line and the rule, each followed
\* by "\n\n"
HeaderBlock(filename, fileType, ts) ==
    HashSpace \o filename \o <<NL, NL>>
    \o <<">", " ", "C", "o", "n", "v", "e", "r", "t", "e", "d", " ", "f", "r", "o", "m", " ">> \o fileType \o <<" ", "o", "n", " ">> \o ts \o <<NL, NL>>
    \o RuleLine \o <<NL, NL>>

\* base.py:103  return header + body
ToMarkdown(filename, fileType, ts, body) == HeaderBlock(filename, fileType, ts) \o body

\* BaseConverter._build_json_structure
BuildJsonStructure(filename, fileType, ts, c, meta) ==
    [source |-> [filename |-> filename, type |-> fileType, converted_at |-> ts],
     content |-> c,
     metadata |-> meta]

\* datetime.now(timezone.utc).isoformat() of the clock at the call
IsoTimestamps ==
    {<<"2", "0", "2", "4", "-", "0", "1", "-", "0", "1", "T", "0", "0", ":", "0", "0", ":", "0", "0", "+", "0", "0", ":", "0", "0">>, <<"2", "0", "2", "5", "-", "1", "2", "-", "3", "1", "T", "2", "3", ":", "5", "9", ":", "5", "9", ".", "9", "9", "9", "9", "9", "9", "+", "0", "0", ":", "0", "0">>}

\* strftime('%Y-%m-%d %H:%M:%S UTC') of the clock at the call
Timestamps ==
    {<<"2", "0", "2", "4", "-", "0", "1", "-", "0", "1", " ", "0", "0", ":", "0", "0", ":", "0", "0", " ", "U", "T", "C">>,
     <<"2", "0", "2", "5", "-", "1", "2", "-", "3", "1", " ", "2", "3", ":", "5", "9", ":", "5", "9", " ", "U", "T", "C">>}

\* ------------------------------------------------------------------------
\* The line loop of _convert_markdown_to_doc as a state machine
\* ------------------------------------------------------------------------
\* lines a Markdown file is assembled from: one per rule of the loop
LinePool ==
    {<<"#", " ", "T">>,
     <<"#", " ">>,
     <<"#", "#", "#", "#", "#", "#", "#", " ", "T">>,
     <<">", " ", "C", "o", "n", "v", "e", "r", "t", "e", "d", " ", "f", "r", "o", "m", " ", "x">>,
     <<"-", "-", "-">>,
     <<>>,
     <<BT, BT, BT>>,
     <<"|", " ", "A", " ", "|", " ", "B", " ", "|">>,
     <<"|", " ", "-", "-", "-", " ", "|", " ", "-", "-", "-", " ", "|">>,
     <<"|", " ", "1", " ", "|">>,
     <<"-", " ", "a">>,
     <<"1", ".", " ", "b">>,
     <<"a", " ", "*", "*", "b", "*", "*", " ", "c">>,
     <<"a", "*", "*", "*">>,
     <<">", " ", "q">>}

RECURSIVE SeqsUpTo(_, _)
\* the sequences over S of length at most n
SeqsUpTo(S, n) ==
    IF n = 0 THEN {<<>>}
    ELSE LET shorter == SeqsUpTo(S, n - 1) IN
         shorter \cup {Append(q, x) : q \in {r \in shorter : Len(r) = n - 1}, x \in S}

\* the Markdown body of the round-trip scenario
ScenarioBody ==
    <<"#", "#", " ", "H", "e", "a", "d", "i", "n", "g", NL, NL, "S", "o", "m", "e", " ", "*", "*", "b", "o", "l", "d", "*", "*", " ", "t", "e", "x", "t", ".", NL, NL, "|", " ", "A", " ", "|", " ", "B", " ", "|", NL, "|", " ", "-", "-", "-", " ", "|", " ", "-", "-", "-", " ", "|", NL, "|", " ", "1", " ", "|", " ", "2", " ", "|", NL>>

\* bodies a forward converter hands to to_markdown
ForwardBodies == {ScenarioBody, <<"x", " ", "y", NL>>, <<>>}

Filenames == {<<"T", "i", "t", "l", "e">>}

\* the first lines of a file that carries a header block with its lines
\* directly under each other, a blank line after the rule
HeadedLines == <<<<"#", " ", "T">>, <<">", " ", "C", "o", "n", "v", "e", "r", "t", "e", "d", " ", "f", "r", "o", "m", " ", "x">>, <<"-", "-", "-">>, <<>>>>

\* the Markdown files the reverse converter is given: written by a forward
\* converter's to_markdown, or assembled from the pool
ReverseInputs ==
    {[from |-> "forward", body |-> b, text |-> ToMarkdown(f, <<"w", "o", "r", "d", "_", "d", "o", "c", "u", "m", "e", "n", "t">>, ts, b)] :
        b \in ForwardBodies, f \in Filenames, ts \in Timestamps}
    \cup {[from |-> "file", body |-> <<>>, text |-> Join(ls, <<NL>>)] :
            ls \in SeqsUpTo(LinePool, MaxLines) \ {<<>>}}
    \cup {[from |-> "file", body |-> <<>>, text |-> Join(HeadedLines \o ls, <<NL>>)] :
            ls \in SeqsUpTo(LinePool, 1)}

\* _parse_source and the first statements of _convert_markdown_to_doc
RevInit ==
    /\ revIn \in ReverseInputs
    /\ lines = Split(revIn.text, NL)
    /\ i = 0
    /\ doc = <<>>

\* one iteration of the while loop: the cursor moves and the elements the
\* branch builds are added to the document
Iterate(r) ==
    /\ i' = r.next
    /\ doc' = doc \o r.out
    /\ UNCHANGED <<lines, revIn, cacheVars, fwdVars, webVars>>

\* md_to_docx.py:93-103
StripHeader ==
    /\ i < Len(lines)
    /\ RuleAt(lines, i) = "header"
    /\ Iterate(HeaderRule(lines, i))

\* md_to_docx.py:106-117
CodeBlock ==
    /\ i < Len(lines)
    /\ RuleAt(lines, i) = "code"
    /\ Iterate(CodeRule(lines, i))

\* md_to_docx.py:120-127
Table ==
    /\ i < Len(lines)
    /\ RuleAt(lines, i) = "table"
    /\ Iterate(TableRule(lines, i))

\* md_to_docx.py:130-139
Heading ==
    /\ i < Len(lines)
    /\ RuleAt(lines, i) = "heading"
    /\ Iterate(HeadingRule(lines, i))

\* md_to_docx.py:142-147
HorizontalRule ==
    /\ i < Len(lines)
    /\ RuleAt(lines, i) = "rule"
    /\ Iterate(HorizontalRuleRule(lines, i))

\* md_to_docx.py:150-163
UnorderedList ==
    /\ i < Len(lines)
    /\ RuleAt(lines, i) = "ulist"
    /\ Iterate(UnorderedListRule(lines, i))

\* md_to_docx.py:166-179
OrderedList ==
    /\ i < Len(lines)
    /\ RuleAt(lines, i) = "olist"
    /\ Iterate(OrderedListRule(lines, i))

\* md_to_docx.py:182-196
Blockquote ==
    /\ i < Len(lines)
    /\ RuleAt(lines, i) = "quote"
    /\ Iterate(BlockquoteRule(lines, i))

\* md_to_docx.py:199-201
BlankLine ==
    /\ i < Len(lines)
    /\ RuleAt(lines, i) = "blank"
    /\ Iterate(BlankRule(lines, i))

\* md_to_docx.py:204-206
Paragraph ==
    /\ i < Len(lines)
    /\ RuleAt(lines, i) = "paragraph"
    /\ Iterate(ParagraphRule(lines, i))

NextReverse ==
    \/ StripHeader
    \/ CodeBlock
    \/ Table
    \/ Heading
    \/ HorizontalRule
    \/ UnorderedList
    \/ OrderedList
    \/ Blockquote
    \/ BlankLine
    \/ Paragraph

InitReverse == RevInit /\ CacheInit /\ FwdIdle /\ WebIdle

SpecReverse == InitReverse /\ [][NextReverse]_vars

\* the loop has ended
RevDone == i >= Len(lines)

\* ------------------------------------------------------------------------
\* Python built-ins the forward converters use
\* ------------------------------------------------------------------------
DigitChars == <<"0", "1", "2", "3", "4", "5", "6", "7", "8", "9">>

DigitVal(c) == (CHOOSE k \in 1..10 : DigitChars[k] = c) - 1

RECURSIVE DigitsValue(_)
DigitsValue(ds) ==
    IF ds = <<>> THEN 0
    ELSE 10 * DigitsValue(SubSeq(ds, 1, Len(ds) - 1)) + DigitVal(ds[Len(ds)])

\* int(s): surrounding whitespace is dropped, then an optional sign and at
\* least one digit; anything else is a ValueError (ok = FALSE)
ParseInt(s) ==
    LET t == Strip(s)
        signed == t # <<>> /\ t[1] \in {"+", "-"}
        ds == IF signed THEN Tail(t) ELSE t
    IN IF ds # <<>> /\ \A k \in DOMAIN ds : ds[k] \in Digits
       THEN [ok |-> TRUE,
             value |-> IF signed /\ t[1] = "-" THEN 0 - DigitsValue(ds) ELSE DigitsValue(ds)]
       ELSE [ok |-> FALSE]

RECURSIVE NatToText(_)
NatToText(n) ==
    IF n < 10 THEN <<DigitChars[n + 1]>>
    ELSE NatToText(n \div 10) \o <<DigitChars[(n % 10) + 1]>>

\* str(n) for an integer
IntToText(n) == IF n < 0 THEN <<"-">> \o NatToText(0 - n) ELSE NatToText(n)

RECURSIVE Replace(_, _, _)
\* s.replace(old, new) for a non-empty old
Replace(s, old, new) ==
    IF s = <<>> THEN <<>>
    ELSE IF StartsWith(s, old) THEN new \o Replace(From(s, Len(old)), old, new)
    ELSE <<Head(s)>> \o Replace(Tail(s), old, new)

\* len(s.split()): the number of maximal runs of non-whitespace characters
WordCount(s) ==
    Cardinality({k \in DOMAIN s : s[k] \notin Whitespace /\ (k = 1 \/ s[k - 1] \in Whitespace)})

\* min(a, b)
Min(a, b) == IF a < b THEN a ELSE b

\* [f(x) for x in xs] with f = str.strip
StripAll(cells) == [k \in DOMAIN cells |-> Strip(cells[k])]

\* "| " + " | ".join(cells) + " |"
PipeRow(cells) == <<"|", " ">> \o Join(cells, <<" ", "|", " ">>) \o <<" ", "|">>

\* "| " + " | ".join(["---"] * n) + " |"
SeparatorRow(n) == PipeRow([k \in 1..n |-> <<"-", "-", "-">>])

\* ------------------------------------------------------------------------
\* DocxConverter (src/converters/docx_converter.py)
\* ------------------------------------------------------------------------
HeadingWord == <<"H", "e", "a", "d", "i", "n", "g">>

HeadingPrefix == <<"H", "e", "a", "d", "i", "n", "g", " ">>

\* _extract_table with the header row left out of rows
DocxExtractTableDataOnly(rows) ==
    [headers |-> IF rows = <<>> THEN <<>> ELSE StripAll(rows[1]),
     rows |-> [k \in 1..(Len(rows) - 1) |-> StripAll(rows[k + 1])]]

\* _extract_table: row 0 becomes headers, every row (row 0 too) goes to rows
DocxExtractTable(rows) ==
    [headers |-> IF rows = <<>> THEN <<>> ELSE StripAll(rows[1]),
     rows |-> [k \in DOMAIN rows |-> StripAll(rows[k])]]

\* docx_converter.py:80-83  int(style_name.replace('Heading ', '')), 1 on
\* ValueError
DocxHeadingLevel(style) ==
    LET n == ParseInt(Replace(style, HeadingPrefix, <<>>))
    IN IF n.ok THEN n.value ELSE 1

\* the paragraph branch without the test that skips a paragraph whose
\* stripped text is empty
DocxParagraphKeepsBlank(e, c) ==
    LET text == Strip(e.text)
        style == IF e.style = NoneText THEN <<>> ELSE e.style
    IN [c EXCEPT
          !.headings = IF StartsWith(style, HeadingWord)
                       THEN Append(@, [level |-> DocxHeadingLevel(style), text |-> text])
                       ELSE @,
          !.paragraphs = Append(@, [text |-> text, style |-> style])]

\* docx_converter.py:59-94  one paragraph element of the body
DocxParagraph(e, c) ==
    LET text == Strip(e.text)
        \* para.style.name if para.style else ""
        style == IF e.style = NoneText THEN <<>> ELSE e.style
    IN IF text = <<>> THEN c
       ELSE [c EXCEPT
               !.headings = IF StartsWith(style, HeadingWord)
                            THEN Append(@, [level |-> DocxHeadingLevel(style), text |-> text])
                            ELSE @,
               !.paragraphs = Append(@, [text |-> text, style |-> style])]

\* the table branch with a failing table kept as an empty table
DocxTableKeepsFailed(e, c) ==
    IF e.raises THEN [c EXCEPT !.tables = Append(@, [headers |-> <<>>, rows |-> <<>>])]
    ELSE [c EXCEPT !.tables = Append(@, DocxExtractTable(e.rows))]

\* docx_converter.py:101-117  one table element of the body: a table whose
\* extraction raises is left out
DocxTable(e, c) ==
    IF e.raises THEN c
    ELSE [c EXCEPT !.tables = Append(@, DocxExtractTable(e.rows))]

\* docx_converter.py:57-121  one element of doc.element.body
DocxElement(e, c) ==
    IF EndsWith(e.tag, <<"p">>) THEN DocxParagraph(e, c)
    ELSE IF EndsWith(e.tag, <<"t", "b", "l">>) THEN DocxTable(e, c)
    ELSE c

RECURSIVE DocxWalk(_, _)
\* the for loop over doc.element.body
DocxWalk(body, c) ==
    IF body = <<>> THEN c ELSE DocxWalk(Tail(body), DocxElement(Head(body), c))

\* docx_converter.py:43-48 and 123  the content model after the walk
DocxContent(body) ==
    LET c == DocxWalk(body, [text |-> <<>>, paragraphs |-> <<>>, tables |-> <<>>,
                             headings |-> <<>>])
    IN [c EXCEPT !.text = Join([k \in DOMAIN c.paragraphs |-> c.paragraphs[k].text],
                               <<NL, NL>>)]

\* the metadata with every paragraph counted as a heading
DocxMetadataHeadingsAsParagraphs(c) ==
    [paragraph_count |-> Len(c.paragraphs),
     table_count |-> Len(c.tables),
     heading_count |-> Len(c.paragraphs),
     word_count |-> WordCount(c.text)]

\* docx_converter.py:135-140
DocxMetadata(c) ==
    [paragraph_count |-> Len(c.paragraphs),
     table_count |-> Len(c.tables),
     heading_count |-> Len(c.headings),
     word_count |-> WordCount(c.text)]

\* DocxConverter._extract_content: the first _dbg call opens the log file of
\* docx_converter.py:14 and raises when it cannot; Document() raises on a
\* file it cannot load
DocxExtractContent(source) ==
    IF ~source.logWritable \/ ~source.loadable THEN [raised |-> TRUE]
    ELSE LET c == DocxContent(source.body)
         IN [raised |-> FALSE, content |-> c, metadata |-> DocxMetadata(c)]

\* docx_converter.py:169-177  the Markdown line of one paragraph
DocxParagraphLine(p) ==
    IF StartsWith(p.style, HeadingWord)
    THEN LET n == ParseInt(Replace(p.style, HeadingPrefix, <<>>))
             level == IF n.ok THEN Min(n.value, 6) ELSE 1
         IN Repeat("#", level) \o <<" ">> \o p.text
    ELSE p.text

\* the table branch of _format_as_markdown with the data rows taken from
\* row 0 although the header line was written
DocxTablePartsFromRowZero(t) ==
    IF t.rows = <<>> THEN <<>>
    ELSE <<<<>>>>
         \o (IF t.headers # <<>>
             THEN <<PipeRow(t.headers), SeparatorRow(Len(t.headers))>>
             ELSE <<>>)
         \o [k \in DOMAIN t.rows |-> PipeRow(t.rows[k])]
         \o <<<<>>>>

\* docx_converter.py:181-194  the md_parts entries of one table
DocxTableParts(t) ==
    IF t.rows = <<>> THEN <<>>
    ELSE <<<<>>>>
         \o (IF t.headers # <<>>
             THEN <<PipeRow(t.headers), SeparatorRow(Len(t.headers))>>
             ELSE <<>>)
         \o (LET start == IF t.headers # <<>> THEN 1 ELSE 0
             IN [k \in 1..(Len(t.rows) - start) |-> PipeRow(t.rows[k + start])])
         \o <<<<>>>>

\* docx_converter.py:162-194  md_parts
DocxMdParts(c) ==
    [k \in DOMAIN c.paragraphs |-> DocxParagraphLine(c.paragraphs[k])]
    \o Flatten([k \in DOMAIN c.tables |-> DocxTableParts(c.tables[k])])

\* docx_converter.py:196  "\n\n".join(md_parts)
DocxFormatAsMarkdown(c) == Join(DocxMdParts(c), <<NL, NL>>)

\* ------------------------------------------------------------------------
\* PdfConverter (src/converters/pdf_converter.py)
\* ------------------------------------------------------------------------
\* str(cell) if cell else ""
PdfCell(cell) == IF cell = NoneText \/ cell = <<>> THEN <<>> ELSE cell

PdfRow(row) == [k \in DOMAIN row |-> PdfCell(row[k])]

\* pdf_converter.py:44-57  one table of a page: headers from table[0], rows
\* from every row
PdfTable(pageNum, table) ==
    [page |-> pageNum,
     headers |-> PdfRow(table[1]),
     rows |-> [k \in DOMAIN table |-> PdfRow(table[k])]]

\* pdf_converter.py:28-59  one page
PdfPage(pageNum, page) ==
    LET kept == SelectSeq(page.tables, LAMBDA t : t # <<>>)
    IN [page_number |-> pageNum,
        \* page.extract_text() or ""
        text |-> IF page.text = NoneText THEN <<>> ELSE page.text,
        tables |-> [k \in DOMAIN kept |-> PdfTable(pageNum, kept[k])]]

\* PdfConverter._extract_content
PdfExtractContent(source) ==
    IF ~source.loadable THEN [raised |-> TRUE]
    ELSE LET pages == [n \in DOMAIN source.pages |-> PdfPage(n, source.pages[n])]
             parts == SelectSeq([n \in DOMAIN pages |-> pages[n].text], LAMBDA t : t # <<>>)
             tables == Flatten([n \in DOMAIN pages |-> pages[n].tables])
         IN [raised |-> FALSE,
             content |-> [text |-> Join(parts, <<NL, NL>>), pages |-> pages, tables |-> tables],
             metadata |-> [page_count |-> Len(source.pages),
                           table_count |-> Len(tables),
                           word_count |-> WordCount(Join(parts, <<" ">>))]]

\* pdf_converter.py:87-102  the md_parts entries of one table
PdfTableParts(t) ==
    IF t.rows = <<>> THEN <<>>
    ELSE <<<<>>>>
         \o (IF t.headers # <<>>
             THEN <<PipeRow(t.headers), SeparatorRow(Len(t.headers))>>
             ELSE <<>>)
         \o (LET start == IF t.headers # <<>> THEN 1 ELSE 0
             IN [k \in 1..(Len(t.rows) - start) |-> PipeRow(t.rows[k + start])])
         \o <<<<>>>>

\* pdf_converter.py:76-106  the md_parts entries of one page
PdfPageParts(p) ==
    <<<<"#", "#", " ", "P", "a", "g", "e", " ">> \o IntToText(p.page_number), <<>>>>
    \o (IF p.text # <<>> THEN <<Strip(p.text)>> ELSE <<>>)
    \o Flatten([k \in DOMAIN p.tables |-> PdfTableParts(p.tables[k])])
    \o <<<<>>, RuleLine, <<>>>>

\* PdfConverter._format_as_markdown
PdfFormatAsMarkdown(c) ==
    Join(Flatten([k \in DOMAIN c.pages |-> PdfPageParts(c.pages[k])]), <<NL>>)

\* ------------------------------------------------------------------------
\* PptxConverter (src/converters/pptx_converter.py)
\* ------------------------------------------------------------------------
TableType == <<"T", "A", "B", "L", "E">>

\* pptx_converter.py:65-81  a shape with a table: the entry added to
\* slide_data["shapes"], none when the table has no rows
PptxTableShape(shape) ==
    LET rows == [k \in DOMAIN shape.rows |-> StripAll(shape.rows[k])]
    IN IF rows = <<>> THEN <<>>
       ELSE <<[type |-> TableType, table |-> [rows |-> rows, headers |-> rows[1]]]>>

\* pptx_converter.py:46-51  the non-empty stripped paragraphs of a text frame
PptxShapeText(shape) ==
    SelectSeq(StripAll(shape.paragraphs), LAMBDA t : t # <<>>)

\* pptx_converter.py:45-81  one shape: what it adds to content and to shapes
PptxShape(shape) ==
    LET txt == IF shape.hasTextFrame THEN PptxShapeText(shape) ELSE <<>>
    IN [content |-> IF ~shape.isTitle THEN txt ELSE <<>>,
        shapes |-> (IF txt # <<>> THEN <<[type |-> shape.typeName, text |-> txt]>> ELSE <<>>)
                   \o (IF shape.hasTable THEN PptxTableShape(shape) ELSE <<>>)]

\* the shapes of a slide as slide.shapes iterates them: the title placeholder,
\* when the slide has one, is one of them
SlideShapes(slide) ==
    (IF slide.title # NoneText
     THEN <<[isTitle |-> TRUE, hasTextFrame |-> TRUE, paragraphs |-> <<slide.title>>,
             hasTable |-> FALSE, rows |-> <<>>, typeName |-> <<"P", "L", "A", "C", "E", "H", "O", "L", "D", "E", "R">>]>>
     ELSE <<>>)
    \o slide.shapes

\* pptx_converter.py:30-89  one slide
PptxSlide(slideNum, slide) ==
    LET got == [k \in DOMAIN SlideShapes(slide) |-> PptxShape(SlideShapes(slide)[k])]
    IN [slide_number |-> slideNum,
        title |-> IF slide.title # NoneText THEN Strip(slide.title) ELSE <<>>,
        content |-> Flatten([k \in DOMAIN got |-> got[k].content]),
        notes |-> IF slide.notes # NoneText THEN Strip(slide.notes) ELSE <<>>,
        shapes |-> Flatten([k \in DOMAIN got |-> got[k].shapes])]

\* pptx_converter.py:41-42, 56-57  what one slide adds to full_text_parts
PptxSlideTextParts(slide, data) ==
    (IF slide.title # NoneText THEN <<data.title>> ELSE <<>>) \o data.content

\* PptxConverter._extract_content
PptxExtractContent(source) ==
    IF ~source.loadable THEN [raised |-> TRUE]
    ELSE LET slides == [n \in DOMAIN source.slides |-> PptxSlide(n, source.slides[n])]
             parts == Flatten([n \in DOMAIN slides |->
                                  PptxSlideTextParts(source.slides[n], slides[n])])
             text == Join(parts, <<NL, NL>>)
         IN [raised |-> FALSE,
             content |-> [text |-> text, slides |-> slides,
                          total_slides |-> Len(source.slides)],
             metadata |-> [slide_count |-> Len(source.slides),
                           word_count |-> WordCount(text)]]

\* pptx_converter.py:121-137  the md_parts entries of one shape
PptxShapeParts(s) ==
    IF s.type = TableType /\ "table" \in DOMAIN s /\ s.table.rows # <<>>
    THEN <<<<>>>>
         \o (IF s.table.headers # <<>>
             THEN <<PipeRow(s.table.headers), SeparatorRow(Len(s.table.headers))>>
             ELSE <<>>)
         \o (LET start == IF s.table.headers # <<>> THEN 1 ELSE 0
             IN [k \in 1..(Len(s.table.rows) - start) |-> PipeRow(s.table.rows[k + start])])
         \o <<<<>>>>
    ELSE <<>>

\* pptx_converter.py:105-147  the md_parts entries of one slide
PptxSlideParts(s) ==
    <<<<"#", "#", " ", "S", "l", "i", "d", "e", " ">> \o IntToText(s.slide_number)>>
    \o (IF s.title # <<>> THEN <<<<"#", "#", "#", " ">> \o s.title>> ELSE <<>>)
    \o <<<<>>>>
    \o [k \in DOMAIN s.content |-> <<"-", " ">> \o s.content[k]]
    \o Flatten([k \in DOMAIN s.shapes |-> PptxShapeParts(s.shapes[k])])
    \o (IF s.notes # <<>> THEN <<<<>>, <<"*", "*", "S", "p", "e", "a", "k", "e", "r", " ", "N", "o", "t", "e", "s", ":", "*", "*", " ">> \o s.notes>> ELSE <<>>)
    \o <<<<>>, RuleLine, <<>>>>

\* PptxConverter._format_as_markdown
PptxFormatAsMarkdown(c) ==
    Join(Flatten([k \in DOMAIN c.slides |-> PptxSlideParts(c.slides[k])]), <<NL>>)

\* ------------------------------------------------------------------------
\* XlsxConverter (src/converters/xlsx_converter.py)
\* ------------------------------------------------------------------------
\* any(row_data): some cell text is non-empty
AnyText(row) == \E k \in DOMAIN row : row[k] # <<>>

\* str(cell) if cell is not None else ""
XlsxCell(cell) ==
    IF cell.t = "none" THEN <<>>
    ELSE IF cell.t = "int" THEN IntToText(cell.v)
    ELSE cell.v

\* xlsx_converter.py:90-101  the rows of one sheet: a row with no non-empty
\* cell is skipped; headers is set only by the row whose index is 0
XlsxSheet(name, raw) ==
    LET data == [k \in DOMAIN raw |-> [c \in DOMAIN raw[k] |-> XlsxCell(raw[k][c])]]
        rows == SelectSeq(data, AnyText)
        headers == IF data # <<>> /\ AnyText(data[1]) THEN data[1] ELSE <<>>
    IN [name |-> name,
        headers |-> headers,
        rows |-> rows,
        row_count |-> Len(rows),
        column_count |-> Len(headers)]

\* XlsxConverter._extract_xlsx
XlsxExtractXlsx(source) ==
    IF ~source.loadable THEN [raised |-> TRUE]
    ELSE LET sheets == [n \in DOMAIN source.sheets |->
                           XlsxSheet(source.sheets[n].name, source.sheets[n].rows)]
             parts == Flatten([n \in DOMAIN sheets |->
                                  [k \in DOMAIN sheets[n].rows |->
                                      Join(sheets[n].rows[k], <<",", " ">>)]])
         IN [raised |-> FALSE,
             content |-> [sheets |-> sheets, text |-> Join(parts, <<NL>>)],
             metadata |-> [sheet_count |-> Len(source.sheets),
                           total_rows |-> Len(parts)]]

\* XlsxConverter._extract_csv: every row csv.reader yields is kept; headers
\* is the row whose index is 0
XlsxExtractCsv(source) ==
    IF ~source.loadable THEN [raised |-> TRUE]
    ELSE LET rows == source.rows
             headers == IF rows # <<>> THEN rows[1] ELSE <<>>
             parts == [k \in DOMAIN rows |-> Join(rows[k], <<",", " ">>)]
         IN [raised |-> FALSE,
             content |-> [sheets |-> <<[name |-> <<"S", "h", "e", "e", "t", "1">>,
                                        headers |-> headers,
                                        rows |-> rows,
                                        row_count |-> Len(rows),
                                        column_count |-> Len(headers)]>>,
                          text |-> Join(parts, <<NL>>)],
             metadata |-> [sheet_count |-> 1,
                           total_rows |-> Len(rows),
                           total_columns |-> Len(headers)]]

\* xlsx_converter.py:173-177  one record of the records view: a dict keyed by
\* the non-empty header names; a later column of the same name overwrites
\* the value an earlier one stored
XlsxRecord(headers, row) ==
    LET keys == {headers[c] : c \in DOMAIN headers} \ {<<>>}
        last(h) == CHOOSE c \in DOMAIN headers :
                      /\ headers[c] = h
                      /\ \A d \in DOMAIN headers : headers[d] = h => d <= c
    IN [h \in keys |-> IF last(h) <= Len(row) THEN row[last(h)] ELSE <<>>]

\* xlsx_converter.py:168-190  the sheets_data entry of one sheet
XlsxSheetData(sheet) ==
    IF sheet.headers # <<>> /\ Len(sheet.rows) > 1
    THEN [name |-> sheet.name,
          headers |-> sheet.headers,
          records |-> [k \in 1..(Len(sheet.rows) - 1) |->
                          XlsxRecord(sheet.headers, sheet.rows[k + 1])],
          raw_rows |-> sheet.rows]
    ELSE [name |-> sheet.name, raw_rows |-> sheet.rows]

\* XlsxConverter._build_json_structure
XlsxBuildJsonStructure(filename, fileType, ts, c, meta) ==
    [source |-> [filename |-> filename, type |-> fileType, converted_at |-> ts],
     content |-> [sheets |-> [k \in DOMAIN c.sheets |-> XlsxSheetData(c.sheets[k])]],
     metadata |-> meta]

\* row + [""] * (n - len(row)), then [:n]
PadRow(row, n) == [k \in 1..n |-> IF k <= Len(row) THEN row[k] ELSE <<>>]

\* xlsx_converter.py:131-158  the md_parts entries of one sheet
XlsxSheetParts(s) ==
    <<<<"#", "#", " ">> \o s.name, <<>>>>
    \o (IF s.rows = <<>> THEN <<<<"*", "E", "m", "p", "t", "y", " ", "s", "h", "e", "e", "t", "*">>, <<>>>>
        ELSE (IF s.headers # <<>>
              THEN <<PipeRow(s.headers), SeparatorRow(Len(s.headers))>>
                   \o [k \in 1..(Len(s.rows) - 1) |->
                          PipeRow(PadRow(s.rows[k + 1], Len(s.headers)))]
              ELSE [k \in DOMAIN s.rows |-> PipeRow(s.rows[k])])
             \o <<<<>>, RuleLine, <<>>>>)

\* XlsxConverter._format_as_markdown
XlsxFormatAsMarkdown(c) ==
    Join(Flatten([k \in DOMAIN c.sheets |-> XlsxSheetParts(c.sheets[k])]), <<NL>>)

\* ------------------------------------------------------------------------
\* ImageConverter and the vision providers (src/converters/image_converter.py,
\* src/converters/vision/)
\* ------------------------------------------------------------------------
UpperLetters == <<"A", "B", "C", "D", "E", "F", "G", "H", "I", "J", "K", "L", "M", "N", "O", "P", "Q", "R", "S", "T", "U", "V", "W", "X", "Y", "Z">>

LowerLetters == <<"a", "b", "c", "d", "e", "f", "g", "h", "i", "j", "k", "l", "m", "n", "o", "p", "q", "r", "s", "t", "u", "v", "w", "x", "y", "z">>

\* str.lower()
LowerText(s) ==
    [k \in DOMAIN s |->
        IF \E n \in 1..26 : UpperLetters[n] = s[k]
        THEN LowerLetters[CHOOSE n \in 1..26 : UpperLetters[n] = s[k]]
        ELSE s[k]]

\* s contains the text p
ContainsText(s, p) == \E k \in 0..(Len(s) - Len(p)) : SubSeq(s, k + 1, k + Len(p)) = p

\* os.environ.get(name, default) for a variable that may be unset
EnvGet(value, default) == IF value = NoneText THEN default ELSE value

\* the dictionaries _perform_vision_analysis builds itself
VisionFailure(msg) ==
    [success |-> FALSE, error |-> msg, provider |-> NoneText, model |-> NoneText]

\* ImageAnalysisResult.to_dict: analysis only when success and truthy, error
\* only when truthy
ToDict(r) ==
    [success |-> r.success, provider |-> r.provider_name, model |-> r.model_used]
    @@ (IF r.success /\ r.analysis # None /\ r.analysis # <<>>
        THEN "analysis" :> r.analysis ELSE <<>>)
    @@ (IF r.error # NoneText /\ r.error # <<>> THEN "error" :> r.error ELSE <<>>)

OpenAIName == <<"o", "p", "e", "n", "a", "i">>

OpenAIModel == <<"g", "p", "t", "-", "4", "o">>

KnownProviders == {OpenAIName, <<"a", "n", "t", "h", "r", "o", "p", "i", "c">>, <<"g", "e", "m", "i", "n", "i">>}

\* OpenAIVisionProvider.analyze_image: what the call returns for each way the
\* SDK import, the API call and the JSON parse can end
AnalyzeImage(call) ==
    LET result(ok, analysis, error) ==
            [success |-> ok, analysis |-> analysis, error |-> error,
             provider_name |-> OpenAIName, model_used |-> OpenAIModel]
    IN CASE call = "no_sdk" ->
              result(FALSE, None, <<"O", "p", "e", "n", "A", "I", " ", "l", "i", "b", "r", "a", "r", "y", " ", "n", "o", "t", " ", "i", "n", "s", "t", "a", "l", "l", "e", "d", ".", " ", "R", "u", "n", ":", " ", "p", "i", "p", " ", "i", "n", "s", "t", "a", "l", "l", " ", "o", "p", "e", "n", "a", "i">>)
         [] call = "bad_json" ->
              result(FALSE, None, <<"F", "a", "i", "l", "e", "d", " ", "t", "o", " ", "p", "a", "r", "s", "e", " ", "J", "S", "O", "N", " ", "r", "e", "s", "p", "o", "n", "s", "e", ":", " ", "E", "x", "p", "e", "c", "t", "i", "n", "g", " ", "v", "a", "l", "u", "e">>)
         [] call = "api_error" ->
              result(FALSE, None, <<"O", "p", "e", "n", "A", "I", " ", "A", "P", "I", " ", "e", "r", "r", "o", "r", ":", " ", "t", "i", "m", "e", "o", "u", "t">>)
         [] call = "ok_empty" ->
              result(TRUE, <<>>, NoneText)
         [] OTHER ->
              result(TRUE, [summary |-> <<"a", " ", "c", "a", "t">>], NoneText)

\* VisionProviderFactory.get_provider: "raise" for an unknown provider name,
\* "none" when vision is disabled or the provider has no API key, else the
\* provider
GetProvider(source) ==
    LET name == LowerText(EnvGet(source.providerArg, EnvGet(source.envProvider, OpenAIName)))
    IN IF LowerText(EnvGet(source.envEnabled, <<"t", "r", "u", "e">>)) = <<"f", "a", "l", "s", "e">> THEN "none"
       ELSE IF name \notin KnownProviders \/ ~source.providerImportable THEN "raise"
       ELSE IF ~source.hasApiKey THEN "none"
       ELSE "provider"

\* _perform_vision_analysis returning None, as its annotation allows, when no
\* provider is available
PerformVisionAnalysisOptional(source) ==
    IF ~source.visionAvailable THEN None
    ELSE IF LowerText(EnvGet(source.envEnabled, <<"t", "r", "u", "e">>)) = <<"f", "a", "l", "s", "e">> THEN None
    ELSE IF GetProvider(source) = "provider" THEN ToDict(AnalyzeImage(source.call))
    ELSE None

\* ImageConverter._perform_vision_analysis
PerformVisionAnalysis(source) ==
    IF ~source.visionAvailable THEN VisionFailure(<<"V", "i", "s", "i", "o", "n", " ", "m", "o", "d", "u", "l", "e", " ", "n", "o", "t", " ", "a", "v", "a", "i", "l", "a", "b", "l", "e">>)
    ELSE IF LowerText(EnvGet(source.envEnabled, <<"t", "r", "u", "e">>)) = <<"f", "a", "l", "s", "e">>
    THEN VisionFailure(<<"V", "i", "s", "i", "o", "n", " ", "a", "n", "a", "l", "y", "s", "i", "s", " ", "d", "i", "s", "a", "b", "l", "e", "d", " ", "v", "i", "a", " ", "V", "I", "S", "I", "O", "N", "_", "E", "N", "A", "B", "L", "E", "D", "=", "f", "a", "l", "s", "e">>)
    ELSE LET p == GetProvider(source)
         IN IF p = "raise"
            THEN VisionFailure(<<"V", "i", "s", "i", "o", "n", " ", "a", "n", "a", "l", "y", "s", "i", "s", " ", "f", "a", "i", "l", "e", "d", ":", " ", "U", "n", "k", "n", "o", "w", "n", " ", "v", "i", "s", "i", "o", "n", " ", "p", "r", "o", "v", "i", "d", "e", "r">>)
            ELSE IF p = "none"
            THEN VisionFailure(<<"N", "o", " ", "v", "i", "s", "i", "o", "n", " ", "p", "r", "o", "v", "i", "d", "e", "r", " ", "a", "v", "a", "i", "l", "a", "b", "l", "e", ".", " ", "S", "e", "t", " ", "A", "P", "I", " ", "k", "e", "y", " ", "f", "o", "r", " ", "y", "o", "u", "r", " ", "p", "r", "e", "f", "e", "r", "r", "e", "d", " ", "p", "r", "o", "v", "i", "d", "e", "r", ".">>)
            ELSE ToDict(AnalyzeImage(source.call))

\* image_converter.py:128-138  the OCR text for each way the OCR can end
OcrText(source) ==
    IF source.ocr = "unavailable" THEN <<"[", "O", "C", "R", " ", "n", "o", "t", " ", "a", "v", "a", "i", "l", "a", "b", "l", "e", " ", "-", " ", "T", "e", "s", "s", "e", "r", "a", "c", "t", " ", "n", "o", "t", " ", "i", "n", "s", "t", "a", "l", "l", "e", "d", "]">>
    ELSE IF source.ocr = "error" THEN <<"[", "O", "C", "R", " ", "E", "r", "r", "o", "r", ":", " ", "b", "o", "o", "m", "]">>
    ELSE Strip(source.ocrText)

\* image_converter.py:98-162  the content dictionary before the vision
\* analysis: its vision_analysis entry is None
ImageOpen(source) ==
    [ocr_text |-> OcrText(source),
     base64_data |-> source.base64,
     base64_mime |-> <<"i", "m", "a", "g", "e", "/">> \o LowerText(source.format),
     image_format |-> source.format,
     dimensions |-> [width |-> source.width, height |-> source.height],
     vision_analysis |-> None]

\* (d or {}).get(key, default)
DictGet(d, key, default) ==
    IF d # None /\ key \in DOMAIN d THEN d[key] ELSE default

\* image_converter.py:168-178
ImageMetadata(c) ==
    [format |-> c.image_format,
     width |-> c.dimensions.width,
     height |-> c.dimensions.height,
     ocr_word_count |-> WordCount(c.ocr_text),
     base64_size_bytes |-> Len(c.base64_data),
     vision_analysis_success |-> DictGet(c.vision_analysis, "success", FALSE),
     vision_provider |-> DictGet(c.vision_analysis, "provider", NoneText),
     vision_model |-> DictGet(c.vision_analysis, "model", NoneText)]

\* image_converter.py:304-316  the image_analysis entry of the JSON output
ImageAnalysisEntry(v) ==
    IF DictGet(v, "success", FALSE)
    THEN DictGet(v, "analysis", <<>>)
    ELSE [error |-> DictGet(v, "error", <<"V", "i", "s", "i", "o", "n", " ", "a", "n", "a", "l", "y", "s", "i", "s", " ", "u", "n", "a", "v", "a", "i", "l", "a", "b", "l", "e">>),
          success |-> FALSE]

\* ImageConverter._build_json_structure: its metadata is computed from the
\* content, not taken from self._metadata
ImageBuildJsonStructure(filename, fileType, ts, c) ==
    [source |-> [filename |-> filename, type |-> fileType, converted_at |-> ts],
     metadata |-> [format |-> c.image_format,
                   dimensions |-> c.dimensions,
                   ocr_word_count |-> WordCount(c.ocr_text),
                   base64_size_bytes |-> Len(c.base64_data),
                   vision_provider |-> DictGet(c.vision_analysis, "provider", NoneText),
                   vision_model |-> DictGet(c.vision_analysis, "model", NoneText)],
     image_analysis |-> ImageAnalysisEntry(c.vision_analysis),
     content |-> [ocr_text |-> c.ocr_text,
                  base64_data |-> c.base64_data,
                  base64_mime |-> c.base64_mime,
                  base64_data_uri |-> <<"d", "a", "t", "a", ":">> \o c.base64_mime \o <<";", "b", "a", "s", "e", "6", "4", ",">>
                                      \o c.base64_data]]

\* dict.get(key) is truthy
HasText(d, key) == key \in DOMAIN d /\ d[key] # <<>>

\* image_converter.py:193-251  the vision section; the analyses of the model
\* carry a summary and a reproduction prompt at most, so the style and colour
\* parts (219-246) add nothing
ImageVisionParts(v) ==
    IF v = None \/ v = <<>> THEN <<>>
    ELSE IF DictGet(v, "success", FALSE)
    THEN LET analysis == IF "analysis" \in DOMAIN v THEN v.analysis ELSE <<>>
         IN <<<<"#", "#", " ", "A", "I", " ", "V", "i", "s", "i", "o", "n", " ", "A", "n", "a", "l", "y", "s", "i", "s">>, <<>>,
              <<"*", "A", "n", "a", "l", "y", "z", "e", "d", " ", "b", "y", ":", " ">> \o v.provider \o <<" ", "(">> \o v.model \o <<")", "*">>, <<>>>>
            \o (IF HasText(analysis, "summary")
                THEN <<<<"#", "#", "#", " ", "S", "u", "m", "m", "a", "r", "y">>, <<>>, analysis.summary, <<>>>> ELSE <<>>)
            \o (IF HasText(analysis, "reproduction_prompt")
                THEN <<<<"#", "#", "#", " ", "R", "e", "p", "r", "o", "d", "u", "c", "t", "i", "o", "n", " ", "P", "r", "o", "m", "p", "t">>, <<>>, Fence,
                       analysis.reproduction_prompt, Fence, <<>>>>
                ELSE <<>>)
    ELSE <<<<"#", "#", " ", "A", "I", " ", "V", "i", "s", "i", "o", "n", " ", "A", "n", "a", "l", "y", "s", "i", "s">>, <<>>,
           <<"*", "A", "n", "a", "l", "y", "s", "i", "s", " ", "u", "n", "a", "v", "a", "i", "l", "a", "b", "l", "e", ":", " ">>
             \o (IF "error" \in DOMAIN v THEN v.error ELSE <<"U", "n", "k", "n", "o", "w", "n", " ", "e", "r", "r", "o", "r">>) \o <<"*">>,
           <<>>>>

\* ImageConverter._format_as_markdown
ImageFormatAsMarkdown(c) ==
    Join(<<<<"#", "#", " ", "I", "m", "a", "g", "e", " ", "I", "n", "f", "o", "r", "m", "a", "t", "i", "o", "n">>, <<>>,
           <<"-", " ", "*", "*", "F", "o", "r", "m", "a", "t", ":", "*", "*", " ">> \o c.image_format,
           <<"-", " ", "*", "*", "D", "i", "m", "e", "n", "s", "i", "o", "n", "s", ":", "*", "*", " ">> \o IntToText(c.dimensions.width) \o <<" ", "x", " ">>
             \o IntToText(c.dimensions.height) \o <<" ", "p", "i", "x", "e", "l", "s">>,
           <<>>>>
         \o ImageVisionParts(c.vision_analysis)
         \o <<<<"#", "#", " ", "E", "x", "t", "r", "a", "c", "t", "e", "d", " ", "T", "e", "x", "t", " ", "(", "O", "C", "R", ")">>, <<>>>>
         \o (IF c.ocr_text # <<>> /\ ~StartsWith(c.ocr_text, <<"[">>)
             THEN <<Fence, c.ocr_text, Fence>>
             ELSE <<<<"*">> \o c.ocr_text \o <<"*">>>>)
         \o <<<<>>, <<"#", "#", " ", "B", "a", "s", "e", "6", "4", " ", "E", "n", "c", "o", "d", "e", "d", " ", "I", "m", "a", "g", "e">>, <<>>,
              <<"*", "M", "I", "M", "E", " ", "T", "y", "p", "e", ":", "*", " ">> \o <<BT>> \o c.base64_mime \o <<BT>>, <<>>, Fence>>
         \o (IF Len(c.base64_data) > 200
             THEN <<Slice(c.base64_data, 1, 200) \o <<".", ".", ".">>,
                    <<"[">> \o IntToText(Len(c.base64_data)) \o <<" ", "t", "o", "t", "a", "l", " ", "c", "h", "a", "r", "a", "c", "t", "e", "r", "s", "]">>>>
             ELSE <<c.base64_data>>)
         \o <<Fence>>,
         <<NL>>)

\* ------------------------------------------------------------------------
\* The forward converters as a state machine: a source file is extracted by
\* its converter's _extract_content and rendered by to_markdown
\* ------------------------------------------------------------------------
StyleNames ==
    {NoneText, <<"N", "o", "r", "m", "a", "l">>, <<"H", "e", "a", "d", "i", "n", "g", " ", "1">>, <<"H", "e", "a", "d", "i", "n", "g", " ", "2">>, <<"H", "e", "a", "d", "i", "n", "g", " ", "7">>, <<"H", "e", "a", "d", "i", "n", "g", " ", "0">>,
     <<"H", "e", "a", "d", "i", "n", "g">>, <<"H", "e", "a", "d", "i", "n", "g", " ", "A">>}

\* body elements of a Word document: paragraphs, tables and the section
\* properties element that closes a body
DocxElements ==
    {[tag |-> <<"p">>, text |-> <<" ", "a", " ">>, style |-> st] : st \in StyleNames}
    \cup {[tag |-> <<"p">>, text |-> <<" ">>, style |-> <<"N", "o", "r", "m", "a", "l">>],
          [tag |-> <<"t", "b", "l">>, raises |-> FALSE, rows |-> <<<<<<" ", "A", " ">>, <<"B">>>>, <<<<"1">>, <<"2">>>>>>],
          [tag |-> <<"t", "b", "l">>, raises |-> FALSE, rows |-> <<<<<<"A">>>>>>],
          [tag |-> <<"t", "b", "l">>, raises |-> FALSE, rows |-> <<>>],
          [tag |-> <<"t", "b", "l">>, raises |-> TRUE, rows |-> <<<<<<"A">>>>>>],
          [tag |-> <<"s", "e", "c", "t", "P", "r">>]}

DocxSources ==
    {[kind |-> "docx", filename |-> <<"a", ".", "d", "o", "c", "x">>, body |-> b, logWritable |-> TRUE,
      loadable |-> TRUE] : b \in SeqsUpTo(DocxElements, MaxItems)}
    \cup {[kind |-> "docx", filename |-> <<"a", ".", "d", "o", "c", "x">>, body |-> <<>>, logWritable |-> w,
           loadable |-> l] : w, l \in BOOLEAN}

\* what page.extract_tables() yields: a table is a list of rows of cells, a
\* cell a str or None
PdfRawTables ==
    {<<<<<<"A">>, NoneText>>, <<<<"1">>, <<"2">>>>>>,
     <<<<NoneText, <<>>>>>>,
     <<<<>>>>,
     <<>>}

PdfPages ==
    {[text |-> t, tables |-> ts] :
        t \in {NoneText, <<" ", "p", " ", "q", " ">>},
        ts \in {<<>>} \cup {<<tb>> : tb \in PdfRawTables}}

PdfSources ==
    {[kind |-> "pdf", filename |-> <<"b", ".", "p", "d", "f">>, pages |-> ps, loadable |-> TRUE] :
        ps \in SeqsUpTo(PdfPages, MaxItems)}
    \cup {[kind |-> "pdf", filename |-> <<"b", ".", "p", "d", "f">>, pages |-> <<>>, loadable |-> FALSE]}

TextShape ==
    [isTitle |-> FALSE, hasTextFrame |-> TRUE, paragraphs |-> <<<<" ", "x", " ">>, <<>>>>,
     hasTable |-> FALSE, rows |-> <<>>, typeName |-> <<"T", "E", "X", "T", "_", "B", "O", "X">>]

TableShape(rows) ==
    [isTitle |-> FALSE, hasTextFrame |-> FALSE, paragraphs |-> <<>>,
     hasTable |-> TRUE, rows |-> rows, typeName |-> TableType]

PptxSlides ==
    {[title |-> t, shapes |-> sh, notes |-> n] :
        t \in {NoneText, <<" ", "T", " ">>},
        sh \in {<<>>,
                <<TextShape, TableShape(<<<<<<" ", "A", " ">>, <<"B">>>>, <<<<"1">>, <<"2">>>>>>)>>,
                <<TableShape(<<<<<<"A">>>>>>)>>,
                <<TableShape(<<>>)>>},
        n \in {NoneText, <<" ", "n", " ">>}}

PptxSources ==
    {[kind |-> "pptx", filename |-> <<"c", ".", "p", "p", "t", "x">>, slides |-> ss, loadable |-> TRUE] :
        ss \in SeqsUpTo(PptxSlides, MaxItems)}
    \cup {[kind |-> "pptx", filename |-> <<"c", ".", "p", "p", "t", "x">>, slides |-> <<>>, loadable |-> FALSE]}

\* the rows csv.reader yields: a blank line is an empty row
CsvRows == {<<>>, <<<<>>, <<>>>>, <<<<"a">>, <<"b">>>>, <<<<"a">>, <<"a">>>>, <<<<"1">>>>}

CsvSources ==
    {[kind |-> "xlsx", filename |-> <<"d", ".", "C", "S", "V">>, rows |-> rs, loadable |-> TRUE] :
        rs \in SeqsUpTo(CsvRows, MaxItems)}
    \cup {[kind |-> "xlsx", filename |-> <<"d", ".", "C", "S", "V">>, rows |-> <<>>, loadable |-> FALSE]}

NoCell == [t |-> "none"]

StrCell(v) == [t |-> "str", v |-> v]

IntCell(v) == [t |-> "int", v |-> v]

\* the rows sheet.iter_rows(values_only=True) yields
XlsxRows ==
    {<<NoCell, NoCell>>,
     <<StrCell(<<>>), NoCell>>,
     <<StrCell(<<"a">>), StrCell(<<"b">>)>>,
     <<IntCell(0), NoCell>>}

XlsxSheets == SeqsUpTo(XlsxRows, MaxItems)

SheetNames == <<<<"S", "1">>, <<"S", "2">>, <<"S", "3">>>>

XlsxSources ==
    {[kind |-> "xlsx", filename |-> <<"e", ".", "x", "l", "s", "x">>,
      sheets |-> [n \in DOMAIN ss |-> [name |-> SheetNames[n], rows |-> ss[n]]],
      loadable |-> TRUE] :
        ss \in SeqsUpTo(XlsxSheets, MaxSheets) \ {<<>>}}
    \cup {[kind |-> "xlsx", filename |-> <<"e", ".", "x", "l", "s", "x">>, sheets |-> <<>>, loadable |-> FALSE]}

\* an image file and the environment the vision analysis runs in
ImageSources ==
    {[kind |-> "image", filename |-> <<"f", ".", "P", "N", "G">>, readable |-> TRUE,
      format |-> <<"P", "N", "G">>, width |-> 12, height |-> 3, base64 |-> <<"Q", "U", "J", "D">>,
      ocr |-> o, ocrText |-> <<" ", "h", "i", " ">>,
      visionAvailable |-> va, envEnabled |-> en, providerArg |-> pa,
      envProvider |-> NoneText, providerImportable |-> pi, hasApiKey |-> key,
      call |-> c] :
        o \in {"text", "error", "unavailable"},
        va \in BOOLEAN,
        en \in {NoneText, <<"t", "r", "u", "e">>, <<"f", "a", "l", "s", "e">>, <<"F", "a", "l", "s", "e">>, <<"0">>},
        pa \in {NoneText, <<"O", "p", "e", "n", "A", "I">>, <<"b", "o", "g", "u", "s">>},
        pi \in BOOLEAN,
        key \in BOOLEAN,
        c \in {"ok", "ok_empty", "bad_json", "api_error", "no_sdk"}}
    \cup {[kind |-> "image", filename |-> <<"f", ".", "P", "N", "G">>, readable |-> FALSE]}

Sources ==
    DocxSources \cup PdfSources \cup PptxSources \cup CsvSources \cup XlsxSources
    \cup ImageSources

\* Path.suffix: from the last dot of the name, empty without one
Suffix(name) ==
    LET dots == {k \in DOMAIN name : name[k] = "." /\ k > 1}
    IN IF dots = {} THEN <<>>
       ELSE From(name, (CHOOSE k \in dots : \A j \in dots : j <= k) - 1)

\* _get_file_type of each converter
FileType(source) ==
    CASE source.kind = "docx" -> <<"w", "o", "r", "d", "_", "d", "o", "c", "u", "m", "e", "n", "t">>
      [] source.kind = "pdf" -> <<"p", "d", "f", "_", "d", "o", "c", "u", "m", "e", "n", "t">>
      [] source.kind = "pptx" -> <<"p", "o", "w", "e", "r", "p", "o", "i", "n", "t", "_", "p", "r", "e", "s", "e", "n", "t", "a", "t", "i", "o", "n">>
      [] source.kind = "xlsx" ->
            IF LowerText(Suffix(source.filename)) = <<".", "c", "s", "v">>
            THEN <<"c", "s", "v", "_", "s", "p", "r", "e", "a", "d", "s", "h", "e", "e", "t">> ELSE <<"e", "x", "c", "e", "l", "_", "s", "p", "r", "e", "a", "d", "s", "h", "e", "e", "t">>
      [] OTHER -> <<"i", "m", "a", "g", "e", "_">> \o Replace(LowerText(Suffix(source.filename)), <<".">>, <<>>)

\* self._format_as_markdown of the converter that holds the source
FormatAsMarkdown(source, c) ==
    CASE source.kind = "docx" -> DocxFormatAsMarkdown(c)
      [] source.kind = "pdf" -> PdfFormatAsMarkdown(c)
      [] source.kind = "pptx" -> PptxFormatAsMarkdown(c)
      [] source.kind = "xlsx" -> XlsxFormatAsMarkdown(c)
      [] OTHER -> ImageFormatAsMarkdown(c)

\* a converter was constructed on a source file: base.py:22-26
FwdInit ==
    /\ src \in Sources
    /\ fpc = "source"
    /\ extracted = None
    /\ metadata = <<>>
    /\ output = None
    /\ work = None

\* _extract_content ended: it raised, or it returned the content model after
\* setting self._metadata
Extracted(r) ==
    /\ IF r.raised
       THEN fpc' = "raised" /\ UNCHANGED <<extracted, metadata>>
       ELSE fpc' = "extracted" /\ extracted' = r.content /\ metadata' = r.metadata
    /\ UNCHANGED <<src, output, work, cacheVars, revVars, webVars>>

ExtractDocx ==
    /\ fpc = "source"
    /\ src.kind = "docx"
    /\ Extracted(DocxExtractContent(src))

ExtractPdf ==
    /\ fpc = "source"
    /\ src.kind = "pdf"
    /\ Extracted(PdfExtractContent(src))

ExtractPptx ==
    /\ fpc = "source"
    /\ src.kind = "pptx"
    /\ Extracted(PptxExtractContent(src))

\* xlsx_converter.py:21-28  ext == '.csv'
ExtractCsv ==
    /\ fpc = "source"
    /\ src.kind = "xlsx"
    /\ LowerText(Suffix(src.filename)) = <<".", "c", "s", "v">>
    /\ Extracted(XlsxExtractCsv(src))

ExtractXlsx ==
    /\ fpc = "source"
    /\ src.kind = "xlsx"
    /\ LowerText(Suffix(src.filename)) # <<".", "c", "s", "v">>
    /\ Extracted(XlsxExtractXlsx(src))

\* image_converter.py:98-162  Image.open raises on a file it cannot read
OpenImage ==
    /\ fpc = "source"
    /\ src.kind = "image"
    /\ IF src.readable
       THEN fpc' = "opened" /\ work' = ImageOpen(src)
       ELSE fpc' = "raised" /\ UNCHANGED work
    /\ UNCHANGED <<src, extracted, metadata, output, cacheVars, revVars, webVars>>

\* image_converter.py:165  content["vision_analysis"] = self._perform_vision_analysis()
AssignVisionAnalysis ==
    /\ fpc = "opened"
    /\ work' = [work EXCEPT !.vision_analysis = PerformVisionAnalysis(src)]
    /\ fpc' = "analysed"
    /\ UNCHANGED <<src, extracted, metadata, output, cacheVars, revVars, webVars>>

\* image_converter.py:168-180  the metadata is set and the content returned
ReturnImage ==
    /\ fpc = "analysed"
    /\ extracted' = work
    /\ metadata' = ImageMetadata(work)
    /\ fpc' = "extracted"
    /\ work' = None
    /\ UNCHANGED <<src, output, cacheVars, revVars, webVars>>

\* BaseConverter.to_markdown on the extracted content
RenderMarkdown ==
    /\ fpc = "extracted"
    /\ \E ts \in Timestamps :
          output' = ToMarkdown(src.filename, FileType(src), ts, FormatAsMarkdown(src, extracted))
    /\ fpc' = "rendered"
    /\ UNCHANGED <<src, extracted, metadata, work, cacheVars, revVars, webVars>>

\* BaseConverter.to_json of the converters that keep the common envelope;
\* output holds the structure json.dumps serialises
RenderJson ==
    /\ fpc = "extracted"
    /\ src.kind \in {"docx", "pdf", "pptx"}
    /\ \E ts \in IsoTimestamps :
          output' = BuildJsonStructure(src.filename, FileType(src), ts, extracted, metadata)
    /\ fpc' = "json"
    /\ UNCHANGED <<src, extracted, metadata, work, cacheVars, revVars, webVars>>

\* BaseConverter.to_json of the spreadsheet converter, which overrides
\* _build_json_structure
RenderJsonSheets ==
    /\ fpc = "extracted"
    /\ src.kind = "xlsx"
    /\ \E ts \in IsoTimestamps :
          output' = XlsxBuildJsonStructure(src.filename, FileType(src), ts, extracted, metadata)
    /\ fpc' = "json"
    /\ UNCHANGED <<src, extracted, metadata, work, cacheVars, revVars, webVars>>

\* BaseConverter.to_json of the image converter, which overrides
\* _build_json_structure
RenderJsonImage ==
    /\ fpc = "extracted"
    /\ src.kind = "image"
    /\ \E ts \in IsoTimestamps :
          output' = ImageBuildJsonStructure(src.filename, FileType(src), ts, extracted)
    /\ fpc' = "json"
    /\ UNCHANGED <<src, extracted, metadata, work, cacheVars, revVars, webVars>>

NextForward ==
    \/ ExtractDocx
    \/ ExtractPdf
    \/ ExtractPptx
    \/ ExtractCsv
    \/ ExtractXlsx
    \/ OpenImage
    \/ AssignVisionAnalysis
    \/ ReturnImage
    \/ RenderMarkdown
    \/ RenderJson
    \/ RenderJsonSheets
    \/ RenderJsonImage

InitForward == FwdInit /\ CacheInit /\ RevIdle /\ WebIdle

SpecForward == InitForward /\ [][NextForward]_vars

\* ------------------------------------------------------------------------
\* The web application (src/main.py) over the converter registry
\* (src/converters/__init__.py)
\* ------------------------------------------------------------------------

\* the most files a session of the model holds
MaxFiles == 2

\* the most upload requests suspended at the same time
MaxPending == 1

\* main.py:45
MAX_TOTAL_SIZE == 10485760

\* get_converter found no class: None
NoConverter == "None"

\* converters/__init__.py:16-39
CONVERTER_REGISTRY ==
    (<<".", "d", "o", "c", "x">> :> "DocxConverter") @@ (<<".", "d", "o", "c">> :> "DocxConverter")
    @@ (<<".", "p", "d", "f">> :> "PdfConverter")
    @@ (<<".", "p", "p", "t", "x">> :> "PptxConverter") @@ (<<".", "p", "p", "t">> :> "PptxConverter")
    @@ (<<".", "x", "l", "s", "x">> :> "XlsxConverter") @@ (<<".", "x", "l", "s">> :> "XlsxConverter")
    @@ (<<".", "c", "s", "v">> :> "XlsxConverter")
    @@ (<<".", "p", "n", "g">> :> "ImageConverter") @@ (<<".", "j", "p", "g">> :> "ImageConverter")
    @@ (<<".", "j", "p", "e", "g">> :> "ImageConverter") @@ (<<".", "g", "i", "f">> :> "ImageConverter")
    @@ (<<".", "b", "m", "p">> :> "ImageConverter") @@ (<<".", "t", "i", "f", "f">> :> "ImageConverter")
    @@ (<<".", "t", "i", "f">> :> "ImageConverter") @@ (<<".", "w", "e", "b", "p">> :> "ImageConverter")
    @@ (<<".", "m", "d">> :> "MarkdownToDocxConverter")
    @@ (<<".", "m", "a", "r", "k", "d", "o", "w", "n">> :> "MarkdownToDocxConverter")

\* converters/__init__.py:42-61
DEFAULT_OUTPUT_FORMATS ==
    [e \in DOMAIN CONVERTER_REGISTRY |->
        CASE CONVERTER_REGISTRY[e] \in {"DocxConverter", "PdfConverter", "PptxConverter"} -> "md"
          [] CONVERTER_REGISTRY[e] \in {"XlsxConverter", "ImageConverter"} -> "json"
          [] OTHER -> "docx"]

\* converters/__init__.py:63-65
GetConverter(extension) ==
    IF LowerText(extension) \in DOMAIN CONVERTER_REGISTRY
    THEN CONVERTER_REGISTRY[LowerText(extension)]
    ELSE NoConverter

\* converters/__init__.py:67-69
GetDefaultFormat(extension) ==
    IF LowerText(extension) \in DOMAIN DEFAULT_OUTPUT_FORMATS
    THEN DEFAULT_OUTPUT_FORMATS[LowerText(extension)]
    ELSE "md"

\* the classes that inherit get_output from BaseConverter (base.py:116);
\* ReverseConverter (reverse/base.py:11-90) defines convert,
\* get_output_filename and is_binary_output only
HasGetOutput(class) ==
    class \in {"DocxConverter", "PdfConverter", "PptxConverter", "XlsxConverter",
               "ImageConverter"}

\* Path.stem
Stem(name) == Slice(name, 1, Len(name) - Len(Suffix(name)))

\* BaseConverter.get_output_filename: base.py:140-142, on the path the
\* converter was constructed with
GetOutputFilename(name, format) ==
    Stem(name) \o <<"_", "A", "I", "_", "c", "o", "n", "v", "e", "r", "t", "e", "r">>
    \o (IF Lower(format) = "json" THEN <<".", "j", "s", "o", "n">> ELSE <<".", "m", "d">>)

\* ReverseConverter.get_output_filename: reverse/base.py:80-82
ReverseGetOutputFilename(name) == Stem(name) \o <<"_", "c", "o", "n", "v", "e", "r", "t", "e", "d">> \o <<".", "d", "o", "c", "x">>

\* d[key] = value on a dict
SetKey(d, key, value) == (key :> value) @@ d

\* the request's session_id cookie: absent, or an id
Cookies == SessionIds \cup {"none"}

\* main.py:113-118
NewSession(t) == [files |-> <<>>, converted |-> <<>>, last_activity |-> t, total_size |-> 0]

\* what the registry holds for an id after sessions.pop(session_id): the id
\* was handed out once and uuid4 does not hand it out again
Popped == [tag |-> "Popped"]

\* "session_id in sessions"
InRegistry(reg, session_id) == reg[session_id] \notin {None, Popped}

\* "not session_id or session_id not in sessions"
NoSession(cookie, reg) == cookie \notin SessionIds \/ ~InRegistry(reg, cookie)

\* get_or_create_session: main.py:107-127
GetOrCreateSession(cookie, reg, t) ==
    IF NoSession(cookie, reg)
    THEN LET session_id == CHOOSE s \in SessionIds : reg[s] = None
         IN [session_id |-> session_id,
             sessions |-> [reg EXCEPT ![session_id] = NewSession(t)]]
    ELSE [session_id |-> cookie,
          sessions |-> [reg EXCEPT ![cookie].last_activity = t]]

\* the files a client uploads: the name it sends, the length of the body, and
\* whether the converter's extraction succeeds on that body
Uploads ==
    {[filename |-> <<"a", ".", "d", "o", "c", "x">>, size |-> 1024, extracts |-> TRUE],
     [filename |-> <<"b", ".", "P", "D", "F">>, size |-> 1024, extracts |-> FALSE],
     [filename |-> <<"c", ".", "c", "s", "v">>, size |-> 5 * 1024 * 1024, extracts |-> TRUE],
     [filename |-> <<"e", ".", "p", "n", "g">>, size |-> 6 * 1024 * 1024, extracts |-> TRUE],
     [filename |-> <<"n", ".", "m", "d">>, size |-> 1024, extracts |-> TRUE],
     [filename |-> <<"m", ".", "m", "a", "r", "k", "d", "o", "w", "n">>, size |-> 1024, extracts |-> TRUE],
     [filename |-> <<"x", ".", "t", "x", "t">>, size |-> 1024, extracts |-> TRUE],
     [filename |-> <<>>, size |-> 1024, extracts |-> TRUE]}

\* str(uuid.uuid4())[:8]: main.py:198
FileIds == [n \in 1..(MaxFiles + MaxPending) |-> <<"f">> \o NatToText(n)]

\* the index in files of the entry with this id, 0 when there is none
FileIndex(files, file_id) ==
    IF \E k \in DOMAIN files : files[k].id = file_id
    THEN CHOOSE k \in DOMAIN files : files[k].id = file_id
    ELSE 0

\* the file ids in use: those of the registered files of every session dict,
\* in the registry or dropped from it, and those in the names of stored files
UsedFileIds ==
    {FileIds[n] : n \in {m \in DOMAIN FileIds :
        \/ \E s \in SessionIds :
              InRegistry(sessions, s) /\ FileIndex(sessions[s].files, FileIds[m]) # 0
        \/ \E o \in orphans : FileIndex(o.dict.files, FileIds[m]) # 0
        \/ \E e \in disk : StartsWith(e.path.name, FileIds[m] \o <<"_">>)}}

\* a file id not among the used ones: uuid4 does not repeat
FreshFileId(used) ==
    FileIds[CHOOSE n \in DOMAIN FileIds :
                /\ FileIds[n] \notin used
                /\ \A m \in 1..(n - 1) : FileIds[m] \in used]

\* session_dir / "uploads" / f"{file_id}_{filename}": main.py:201-202
UploadPath(session_id, file_id, filename) ==
    [session |-> session_id, dir |-> "uploads", name |-> file_id \o <<"_">> \o filename]

\* session_dir / "converted" / f"{file_id}_{output_filename}": main.py:311
ConvertedPath(session_id, file_id, output_filename) ==
    [session |-> session_id, dir |-> "converted", name |-> file_id \o <<"_">> \o output_filename]

\* open(path, "w") and write
DiskWrite(dsk, path, data) ==
    {e \in dsk : e.path # path} \cup {[path |-> path, data |-> data]}

\* what stands at path, None when nothing does
DiskRead(dsk, path) ==
    IF \E e \in dsk : e.path = path
    THEN (CHOOSE e \in dsk : e.path = path).data
    ELSE None

\* main.py:208-217
FileInfo(file_id, filename, ext, file_size, upload_path) ==
    [id |-> file_id, filename |-> filename, extension |-> ext, size |-> file_size,
     upload_path |-> upload_path, output_format |-> GetDefaultFormat(ext),
     status |-> "uploaded", converted_path |-> None]

\* an exception raised inside the try block of convert_files
Raised(error) == [raised |-> TRUE, error |-> error]

\* BaseConverter.get_output on the uploaded file: base.py:116-128; convert()
\* raises what _extract_content raises
GetOutput(format, data) ==
    IF data = None THEN Raised("No such file or directory")
    ELSE IF ~data.extracts THEN Raised("extraction failed")
    ELSE [raised |-> FALSE, value |-> [type |-> "str", by |-> GetOutputTarget(format)]]

\* the try block of convert_files up to the save: main.py:283-308
TryConvert(info, dsk) ==
    LET converter_class == GetConverter(info.extension)
    IN IF converter_class = NoConverter THEN Raised("No converter")
       ELSE IF ~HasGetOutput(converter_class)
       THEN Raised("object has no attribute 'get_output'")
       ELSE LET output_content == GetOutput(info.output_format, DiskRead(dsk, info.upload_path))
            IN IF output_content.raised THEN output_content
               ELSE [raised |-> FALSE,
                     output_content |-> output_content.value,
                     output_filename |->
                         GetOutputFilename(info.upload_path.name, info.output_format)]

\* an iteration of the loop of convert_files that does not look at the
\* status of the file
ConvertFileWhateverStatus(session_id, info, dsk, t) ==
    LET a == TryConvert(info, dsk)
    IN IF a.raised
       THEN [info |-> SetKey(SetKey(info, "status", "error"), "error", a.error),
             disk |-> dsk,
             result |-> [id |-> info.id, filename |-> info.filename,
                         status |-> "error", error |-> a.error]]
       ELSE LET converted_path == ConvertedPath(session_id, info.id, a.output_filename)
            IN [info |-> SetKey(SetKey(SetKey(SetKey(info,
                            "status", "converted"),
                            "converted_path", converted_path),
                            "output_filename", a.output_filename),
                            "converted_at", t),
                disk |-> DiskWrite(dsk, converted_path, a.output_content),
                result |-> [id |-> info.id, filename |-> info.filename,
                            status |-> "converted",
                            output_filename |-> a.output_filename,
                            output_format |-> info.output_format,
                            converted_at |-> t]]

\* one iteration of the loop of convert_files: main.py:272-353
ConvertFile(session_id, info, dsk, t) ==
    IF info.status = "converted"
    THEN [info |-> info, disk |-> dsk,
          result |-> [id |-> info.id, filename |-> info.filename,
                      status |-> "already_converted",
                      output_filename |-> DictGet(info, "output_filename", None)]]
    ELSE LET a == TryConvert(info, dsk)
         IN IF a.raised
            THEN [info |-> SetKey(SetKey(info, "status", "error"), "error", a.error),
                  disk |-> dsk,
                  result |-> [id |-> info.id, filename |-> info.filename,
                              status |-> "error", error |-> a.error]]
            ELSE LET converted_path == ConvertedPath(session_id, info.id, a.output_filename)
                 IN [info |-> SetKey(SetKey(SetKey(SetKey(info,
                                 "status", "converted"),
                                 "converted_path", converted_path),
                                 "output_filename", a.output_filename),
                                 "converted_at", t),
                     disk |-> DiskWrite(dsk, converted_path, a.output_content),
                     result |-> [id |-> info.id, filename |-> info.filename,
                                 status |-> "converted",
                                 output_filename |-> a.output_filename,
                                 output_format |-> info.output_format,
                                 converted_at |-> t]]

RECURSIVE ConvertLoopAborting(_, _, _, _)
\* the for loop without its exception handler: the first failure ends it
ConvertLoopAborting(session_id, k, acc, t) ==
    IF k > Len(acc.files) THEN acc
    ELSE LET r == ConvertFile(session_id, acc.files[k], acc.disk, t)
         IN IF r.result.status = "error" THEN acc
            ELSE ConvertLoopAborting(session_id, k + 1,
                        [files |-> [acc.files EXCEPT ![k] = r.info],
                         disk |-> r.disk,
                         results |-> Append(acc.results, r.result)], t)

RECURSIVE ConvertLoop(_, _, _, _)
\* the for loop of convert_files from the k-th file on: main.py:271-353
ConvertLoop(session_id, k, acc, t) ==
    IF k > Len(acc.files) THEN acc
    ELSE LET r == ConvertFile(session_id, acc.files[k], acc.disk, t)
         IN ConvertLoop(session_id, k + 1,
                        [files |-> [acc.files EXCEPT ![k] = r.info],
                         disk |-> r.disk,
                         results |-> Append(acc.results, r.result)], t)

\* the uploads of a session that are suspended
PendingOf(session_id) == {k \in DOMAIN pending : pending[k].session_id = session_id}

\* upload_file up to "await file.read()", the client sending a file of
\* this pool: main.py:166-186
UploadBeginFrom(pool) ==
    /\ Len(pending) < MaxPending
    /\ \E cookie \in Cookies, u \in pool :
          /\ NoSession(cookie, sessions) => \E s \in SessionIds : sessions[s] = None
          /\ LET g == GetOrCreateSession(cookie, sessions, now)
                 filename == IF u.filename = <<>> THEN <<"u", "n", "k", "n", "o", "w", "n">> ELSE u.filename
                 ext == LowerText(Suffix(filename))
             IN /\ Len(g.sessions[g.session_id].files)
                      + Cardinality(PendingOf(g.session_id)) < MaxFiles
                /\ sessions' = g.sessions
                /\ IF GetConverter(ext) = NoConverter
                   THEN /\ reply' = [handler |-> "upload", code |-> 400,
                                     detail |-> "Unsupported file type"]
                        /\ UNCHANGED pending
                   ELSE /\ pending' = Append(pending,
                               [session_id |-> g.session_id, filename |-> filename,
                                ext |-> ext, body |-> u, ref |-> <<>>])
                        /\ UNCHANGED reply
    /\ UNCHANGED <<orphans, disk, now, cacheVars, revVars, fwdVars>>

\* upload_file up to "await file.read()": main.py:166-186
UploadBegin == UploadBeginFrom(Uploads)

\* the dict the local variable "session" of a suspended upload refers to
\* (main.py:173): the one in the registry while ref is empty, else the
\* dropped dict ref names
LocalSession(p) ==
    IF p.ref = <<>> THEN sessions[p.session_id]
    ELSE (CHOOSE o \in orphans : o.key = p.ref).dict

\* the dropped dicts some suspended upload still refers to; the others are
\* garbage
Referenced(orph, pend) == {o \in orph : \E k \in DOMAIN pend : pend[k].ref = o.key}

\* the session directory with its uploads and converted subdirectories:
\* get_or_create_session makes it with the registry entry (main.py:119-124),
\* clear_session makes it again (main.py:513-517), and the sweep alone
\* removes it, together with the registry entry (main.py:63-70)
DirExists(reg, session_id) == InRegistry(reg, session_id)

\* upload_file from the return of file.read() on: main.py:186-230
UploadResume ==
    /\ \E k \in DOMAIN pending :
          LET p == pending[k]
              session == LocalSession(p)
              file_size == p.body.size
              rest == [j \in 1..(Len(pending) - 1) |->
                          IF j < k THEN pending[j] ELSE pending[j + 1]]
          IN /\ pending' = rest
             /\ IF session.total_size + file_size > MAX_TOTAL_SIZE
                THEN /\ reply' = [handler |-> "upload", code |-> 400,
                                  detail |-> "Total upload size would exceed limit"]
                     /\ orphans' = Referenced(orphans, rest)
                     /\ UNCHANGED <<sessions, disk>>
                ELSE IF ~DirExists(sessions, p.session_id)
                THEN \* open(upload_path, "wb") raises FileNotFoundError
                     /\ reply' = [handler |-> "upload", code |-> 500,
                                  detail |-> "Internal Server Error"]
                     /\ orphans' = Referenced(orphans, rest)
                     /\ UNCHANGED <<sessions, disk>>
                ELSE /\ \E n \in DOMAIN FileIds : FileIds[n] \notin UsedFileIds
                     /\ LET file_id == FreshFileId(UsedFileIds)
                            upload_path == UploadPath(p.session_id, file_id, p.filename)
                            file_info == FileInfo(file_id, p.filename, p.ext, file_size,
                                                  upload_path)
                            stored == [session EXCEPT
                                          !.files = Append(@, file_info),
                                          !.total_size = @ + file_size,
                                          !.last_activity = now]
                        IN /\ disk' = DiskWrite(disk, upload_path,
                                                [extracts |-> p.body.extracts])
                           /\ IF p.ref = <<>>
                              THEN /\ sessions' = [sessions EXCEPT ![p.session_id] = stored]
                                   /\ orphans' = Referenced(orphans, rest)
                              ELSE /\ orphans' = Referenced(
                                          {IF o.key = p.ref
                                           THEN [o EXCEPT !.dict = stored] ELSE o :
                                              o \in orphans}, rest)
                                   /\ UNCHANGED sessions
                           /\ reply' = [handler |-> "upload", code |-> 200,
                                        success |-> TRUE, session_id |-> p.session_id,
                                        file |-> file_info]
    /\ UNCHANGED <<now, cacheVars, revVars, fwdVars>>

\* the format parameter of /api/set-format
RequestFormats == {"md", "json", "docx"}

\* set_output_format: main.py:233-256
SetOutputFormat ==
    /\ \E cookie \in Cookies, n \in DOMAIN FileIds, format \in RequestFormats :
          IF NoSession(cookie, sessions)
          THEN /\ reply' = [handler |-> "set-format", code |-> 404,
                            detail |-> "Session not found"]
               /\ UNCHANGED sessions
          ELSE IF FileIndex(sessions[cookie].files, FileIds[n]) = 0
          THEN /\ reply' = [handler |-> "set-format", code |-> 404,
                            detail |-> "File not found"]
               /\ UNCHANGED sessions
          ELSE IF format \notin {"md", "json"}
          THEN /\ reply' = [handler |-> "set-format", code |-> 400,
                            detail |-> "Format must be 'md' or 'json'"]
               /\ UNCHANGED sessions
          ELSE /\ sessions' = [sessions EXCEPT
                      ![cookie].files[FileIndex(sessions[cookie].files, FileIds[n])].output_format
                          = format,
                      ![cookie].last_activity = now]
               /\ reply' = [handler |-> "set-format", code |-> 200, success |-> TRUE,
                            session_id |-> cookie, format |-> format]
    /\ UNCHANGED <<pending, orphans, disk, now, cacheVars, revVars, fwdVars>>

\* convert_files: main.py:259-353
ConvertFiles ==
    /\ \E cookie \in Cookies :
          IF NoSession(cookie, sessions)
          THEN /\ reply' = [handler |-> "convert", code |-> 404,
                            detail |-> "Session not found"]
               /\ UNCHANGED <<sessions, disk>>
          ELSE LET r == ConvertLoop(cookie, 1,
                                    [files |-> sessions[cookie].files, disk |-> disk,
                                     results |-> <<>>], now)
               IN /\ sessions' = [sessions EXCEPT ![cookie].files = r.files,
                                                  ![cookie].last_activity = now]
                  /\ disk' = r.disk
                  /\ reply' = [handler |-> "convert", code |-> 200, success |-> TRUE,
                               session_id |-> cookie, results |-> r.results]
    /\ UNCHANGED <<pending, orphans, now, cacheVars, revVars, fwdVars>>

NextBatch ==
    \/ UploadBegin
    \/ UploadResume
    \/ SetOutputFormat
    \/ ConvertFiles

InitBatch == WebIdle /\ CacheInit /\ RevIdle /\ FwdIdle

SpecBatch == InitBatch /\ [][NextBatch]_vars

\* main.py:46
SESSION_TIMEOUT_MINUTES == 15

\* the minutes the clock of the model advances in one step
TickMinutes == 16

\* the last minute the clock of the model reaches
MaxNow == 16

\* the suspended uploads whose local "session" is the registry's dict of one
\* of these sessions
HoldingLive(S) ==
    {k \in DOMAIN pending : pending[k].ref = <<>> /\ pending[k].session_id \in S}

\* the name a dict of this session gets when the registry drops it: the
\* lowest index no dropped dict of the session carries
OrphanKey(session_id) ==
    <<session_id,
      CHOOSE n \in 1..(MaxPending + 1) :
          /\ \A o \in orphans : o.key # <<session_id, n>>
          /\ \A m \in 1..(n - 1) : \E o \in orphans : o.key = <<session_id, m>>>>

\* the registry stops referring to the dicts of these sessions (a pop, or an
\* assignment of a new dict): the suspended uploads that captured them keep
\* them
DropDicts(S) ==
    [orphans |-> orphans \cup {[key |-> OrphanKey(x), dict |-> sessions[x]] :
                                   x \in {y \in S : HoldingLive({y}) # {}}},
     pending |-> [k \in DOMAIN pending |->
                     IF k \in HoldingLive(S)
                     THEN [pending[k] EXCEPT !.ref = OrphanKey(pending[k].session_id)]
                     ELSE pending[k]]]

\* shutil.rmtree(session_dir)
RmTree(dsk, S) == {e \in dsk : e.path.session \notin S}

\* Path.exists
PathExists(dsk, path) == \E e \in dsk : e.path = path

\* Path.unlink when the path exists
Unlink(dsk, path) == {e \in dsk : e.path # path}

\* del files[file_id] that removes nothing
RemoveNothing(files, k) == files

\* del files[file_id], files being the values of the dict in insertion order
RemoveAt(files, k) ==
    [j \in 1..(Len(files) - 1) |-> IF j < k THEN files[j] ELSE files[j + 1]]

\* the files a client of the full application uploads: one whose extraction
\* fails, one that converts and is of more than half the size limit, and one
\* of an unsupported type
WebUploads ==
    {u \in Uploads : u.filename \in {<<"b", ".", "P", "D", "F">>, <<"e", ".", "p", "n", "g">>, <<"x", ".", "t", "x", "t">>}}

\* upload_file up to "await file.read()": main.py:166-186
UploadBeginWeb == UploadBeginFrom(WebUploads)

\* get_session: main.py:141-156
GetSession ==
    /\ \E cookie \in Cookies :
          /\ NoSession(cookie, sessions) => \E x \in SessionIds : sessions[x] = None
          /\ LET g == GetOrCreateSession(cookie, sessions, now)
             IN /\ sessions' = g.sessions
                /\ reply' = [handler |-> "session", code |-> 200,
                             session_id |-> g.session_id,
                             files |-> g.sessions[g.session_id].files]
    /\ UNCHANGED <<pending, orphans, disk, now, cacheVars, revVars, fwdVars>>

\* the checks download_file and preview_file share: main.py:359-377 and
\* 391-409; "ok" when the converted file can be served
ServeCheck(cookie, file_id) ==
    IF NoSession(cookie, sessions)
    THEN [code |-> 404, detail |-> "Session not found"]
    ELSE IF FileIndex(sessions[cookie].files, file_id) = 0
    THEN [code |-> 404, detail |-> "File not found"]
    ELSE LET file_info == sessions[cookie].files[FileIndex(sessions[cookie].files, file_id)]
         IN IF file_info.status # "converted"
            THEN [code |-> 400, detail |-> "File not yet converted"]
            ELSE IF ~PathExists(disk, file_info.converted_path)
            THEN [code |-> 404, detail |-> "Converted file not found"]
            ELSE [code |-> 200, detail |-> "ok"]

\* download_file: main.py:356-385
DownloadFile ==
    /\ \E cookie \in Cookies, n \in DOMAIN FileIds :
          LET c == ServeCheck(cookie, FileIds[n])
          IN IF c.code # 200
             THEN /\ reply' = [handler |-> "download", code |-> c.code, detail |-> c.detail]
                  /\ UNCHANGED sessions
             ELSE LET file_info ==
                          sessions[cookie].files[FileIndex(sessions[cookie].files, FileIds[n])]
                  IN /\ sessions' = [sessions EXCEPT ![cookie].last_activity = now]
                     /\ reply' = [handler |-> "download", code |-> 200,
                                  session_id |-> cookie, id |-> file_info.id,
                                  path |-> file_info.converted_path,
                                  filename |-> file_info.output_filename]
    /\ UNCHANGED <<pending, orphans, disk, now, cacheVars, revVars, fwdVars>>

\* preview_file: main.py:388-424; the preview is the stored content, which
\* the model keeps as the method that produced it
PreviewFile ==
    /\ \E cookie \in Cookies, n \in DOMAIN FileIds :
          LET c == ServeCheck(cookie, FileIds[n])
          IN IF c.code # 200
             THEN reply' = [handler |-> "preview", code |-> c.code, detail |-> c.detail]
             ELSE LET file_info ==
                          sessions[cookie].files[FileIndex(sessions[cookie].files, FileIds[n])]
                  IN reply' = [handler |-> "preview", code |-> 200,
                               session_id |-> cookie, id |-> file_info.id,
                               filename |-> file_info.output_filename,
                               format |-> file_info.output_format,
                               preview |-> DiskRead(disk, file_info.converted_path)]
    /\ UNCHANGED <<sessions, pending, orphans, disk, now, cacheVars, revVars, fwdVars>>

\* download_all: main.py:427-465
DownloadAll ==
    /\ \E cookie \in Cookies :
          IF NoSession(cookie, sessions)
          THEN /\ reply' = [handler |-> "download-all", code |-> 404,
                            detail |-> "Session not found"]
               /\ UNCHANGED sessions
          ELSE LET converted_files ==
                       SelectSeq(sessions[cookie].files,
                                 LAMBDA f : f.status = "converted")
               IN IF converted_files = <<>>
                  THEN /\ reply' = [handler |-> "download-all", code |-> 400,
                                    detail |-> "No converted files to download"]
                       /\ UNCHANGED sessions
                  ELSE /\ sessions' = [sessions EXCEPT ![cookie].last_activity = now]
                       /\ reply' = [handler |-> "download-all", code |-> 200,
                                    session_id |-> cookie,
                                    names |-> [j \in DOMAIN SelectSeq(converted_files,
                                                   LAMBDA f : PathExists(disk, f.converted_path))
                                               |-> SelectSeq(converted_files,
                                                   LAMBDA f : PathExists(disk, f.converted_path))[j]
                                                       .output_filename]]
    /\ UNCHANGED <<pending, orphans, disk, now, cacheVars, revVars, fwdVars>>

\* delete_file: main.py:468-499
DeleteFile ==
    /\ \E cookie \in Cookies, n \in DOMAIN FileIds :
          IF NoSession(cookie, sessions)
          THEN /\ reply' = [handler |-> "delete", code |-> 404,
                            detail |-> "Session not found"]
               /\ UNCHANGED <<sessions, disk>>
          ELSE IF FileIndex(sessions[cookie].files, FileIds[n]) = 0
          THEN /\ reply' = [handler |-> "delete", code |-> 404,
                            detail |-> "File not found"]
               /\ UNCHANGED <<sessions, disk>>
          ELSE LET k == FileIndex(sessions[cookie].files, FileIds[n])
                   file_info == sessions[cookie].files[k]
                   unlinked == Unlink(disk, file_info.upload_path)
               IN /\ disk' = IF file_info.converted_path # None
                             THEN Unlink(unlinked, file_info.converted_path)
                             ELSE unlinked
                  /\ sessions' = [sessions EXCEPT
                         ![cookie].total_size = @ - file_info.size,
                         ![cookie].files = RemoveAt(@, k),
                         ![cookie].last_activity = now]
                  /\ reply' = [handler |-> "delete", code |-> 200, success |-> TRUE,
                               session_id |-> cookie]
    /\ UNCHANGED <<pending, orphans, now, cacheVars, revVars, fwdVars>>

\* clear_session: main.py:502-527
ClearSession ==
    /\ \E cookie \in Cookies :
          IF NoSession(cookie, sessions)
          THEN /\ reply' = [handler |-> "clear", code |-> 404,
                            detail |-> "Session not found"]
               /\ UNCHANGED <<sessions, pending, orphans, disk>>
          ELSE /\ disk' = IF DirExists(sessions, cookie) THEN RmTree(disk, {cookie}) ELSE disk
               /\ pending' = DropDicts({cookie}).pending
               /\ orphans' = DropDicts({cookie}).orphans
               /\ sessions' = [sessions EXCEPT ![cookie] = NewSession(now)]
               /\ reply' = [handler |-> "clear", code |-> 200, success |-> TRUE,
                            session_id |-> cookie]
    /\ UNCHANGED <<now, cacheVars, revVars, fwdVars>>

\* the sessions one pass of the sweep finds expired: main.py:59-64
Expired(reg, t) ==
    {x \in SessionIds :
        InRegistry(reg, x) /\ t - reg[x].last_activity > SESSION_TIMEOUT_MINUTES}

\* one pass of cleanup_expired_sessions after its sleep: main.py:58-71
Sweep ==
    /\ disk' = RmTree(disk, Expired(sessions, now))
    /\ pending' = DropDicts(Expired(sessions, now)).pending
    /\ orphans' = DropDicts(Expired(sessions, now)).orphans
    /\ sessions' = [x \in SessionIds |->
                       IF x \in Expired(sessions, now) THEN Popped ELSE sessions[x]]
    /\ UNCHANGED <<reply, now, cacheVars, revVars, fwdVars>>

\* time passes
Tick ==
    /\ now + TickMinutes <= MaxNow
    /\ now' = now + TickMinutes
    /\ UNCHANGED <<sessions, pending, orphans, disk, reply, cacheVars, revVars, fwdVars>>

NextWeb ==
    \/ GetSession
    \/ UploadBeginWeb
    \/ UploadResume
    \/ SetOutputFormat
    \/ ConvertFiles
    \/ DownloadFile
    \/ PreviewFile
    \/ DownloadAll
    \/ DeleteFile
    \/ ClearSession
    \/ Sweep
    \/ Tick

InitWeb == WebIdle /\ CacheInit /\ RevIdle /\ FwdIdle

SpecWeb == InitWeb /\ [][NextWeb]_vars

\* ------------------------------------------------------------------------
\* Claims about the extraction cache
\* ------------------------------------------------------------------------
AllExtractionsOk == \A k \in DOMAIN extractLog : extractLog[k].outcome = "ok"

OpsReturned == {callLog[k].op : k \in {j \in DOMAIN callLog : callLog[j].outcome = "returned"}}

\* C1: under one caller, when the first extraction succeeds _extract_content
\* is invoked exactly once whatever calls follow, and every call returns the
\* content model that one extraction produced.
C1_ExtractOnce ==
    (Len(extractLog) >= 1 /\ extractLog[1].outcome = "ok") =>
        /\ Len(extractLog) = 1
        /\ \A k \in DOMAIN callLog :
              /\ callLog[k].outcome = "returned"
              /\ callLog[k].content = [tag |-> "content", id |-> 1]
              /\ (k > 1 => ~callLog[k].extracted)

C1_Witness ==
    /\ Len(callLog) = MaxCalls
    /\ extractLog[1].outcome = "ok"
    /\ OpsReturned = {"convert", "to_markdown", "to_json"}

\* C2: with to_markdown() and to_json() interleaved on one instance,
\* _extract_content runs at most once (no extraction having raised).
C2_AtMostOneExtraction ==
    (AllExtractionsOk /\ {op[t] : t \in Threads} = {"to_markdown", "to_json"})
        => Len(extractLog) <= 1

\* C10: a raise of _extract_content leaves the call by exception with no
\* content model, _content stays None, and the next call extracts again.
C10_RaisePropagates ==
    /\ \A k \in DOMAIN callLog :
          callLog[k].outcome = "raised" =>
              /\ callLog[k].content = None
              /\ callLog[k].cacheAfter = None
              /\ (k < Len(callLog) => callLog[k + 1].extracted)
    /\ ((\A k \in DOMAIN extractLog : extractLog[k].outcome = "raise") => content = None)
    /\ Cardinality({k \in DOMAIN callLog : callLog[k].outcome = "raised"})
         = Cardinality({k \in DOMAIN extractLog : extractLog[k].outcome = "raise"})

C10_Witness ==
    /\ Len(callLog) >= 2
    /\ callLog[1].outcome = "raised"
    /\ callLog[2].outcome = "returned"
    /\ callLog[2].extracted
    /\ Len(extractLog) = 2

\* ------------------------------------------------------------------------
\* Claims about the round trip through to_markdown and the reverse converter
\* ------------------------------------------------------------------------
\* what the scenario's document must hold
ScenarioDocument ==
    <<[kind |-> "heading", level |-> 2, runs |-> <<PlainRun(<<"H", "e", "a", "d", "i", "n", "g">>)>>],
      [kind |-> "paragraph",
       runs |-> <<PlainRun(<<"S", "o", "m", "e", " ">>),
                  [style |-> "bold", text |-> <<"b", "o", "l", "d">>, url |-> <<>>],
                  PlainRun(<<" ", "t", "e", "x", "t", ".">>)>>],
      [kind |-> "table", cols |-> 2, nrows |-> 2,
       header |-> <<<<"A">>, <<"B">>>>, rows |-> <<<<<<"1">>, <<"2">>>>>>],
      [kind |-> "paragraph", runs |-> <<>>]>>

\* C3: given the text a forward converter's to_markdown wrote, the reverse
\* converter adds no element for the header block and exactly the elements of
\* the body; for the scenario body these are the heading, the paragraph with
\* the bold run and the 2x2 table.
C3_RoundTrip ==
    (RevDone /\ revIn.from = "forward") =>
        /\ doc = ConvertMarkdown(revIn.body)
        /\ (revIn.body = ScenarioBody => doc = ScenarioDocument)

\* the reverse converter run on the scenario body alone builds the scenario's
\* document: the body rules themselves are sound
ScenarioBodyConverts == ConvertMarkdown(ScenarioBody) = ScenarioDocument

\* ------------------------------------------------------------------------
\* Claims about the forward converters
\* ------------------------------------------------------------------------
\* the lines of what to_markdown returned
OutLines == Split(output, NL)

\* the provenance line for one timestamp
ProvenanceLine(ts) ==
    <<">", " ", "C", "o", "n", "v", "e", "r", "t", "e", "d", " ", "f", "r", "o", "m", " ">> \o FileType(src) \o <<" ", "o", "n", " ">> \o ts

TablesOf(kind, c) ==
    CASE kind = "docx" -> {c.tables[k] : k \in DOMAIN c.tables}
      [] kind = "pdf" ->
            {c.tables[k] : k \in DOMAIN c.tables}
            \cup UNION {{c.pages[n].tables[k] : k \in DOMAIN c.pages[n].tables} :
                           n \in DOMAIN c.pages}
      [] kind = "pptx" ->
            UNION {{c.slides[n].shapes[k].table :
                       k \in {j \in DOMAIN c.slides[n].shapes :
                                 "table" \in DOMAIN c.slides[n].shapes[j]}} :
                      n \in DOMAIN c.slides}
      [] OTHER -> {}

\* C5: in every table the Word, PDF and slide-deck extractors produce,
\* non-empty headers mean rows is non-empty and rows[0] equals headers.
C5_HeaderRowDuplicated ==
    (fpc \in {"extracted", "rendered"} /\ src.kind \in {"docx", "pdf", "pptx"}) =>
        \A t \in TablesOf(src.kind, extracted) :
            t.headers # <<>> => (t.rows # <<>> /\ t.rows[1] = t.headers)

C5_Witness ==
    /\ fpc = "extracted"
    /\ src.kind = "docx"
    /\ \E t \in TablesOf(src.kind, extracted) : t.headers # <<>> /\ Len(t.rows) = 2

\* the lines a pipe table holds: header, separator, data rows
PipeTableLines(t) ==
    <<PipeRow(t.headers), SeparatorRow(Len(t.headers))>>
    \o [k \in 1..(Len(t.rows) - 1) |-> PipeRow(t.rows[k + 1])]

\* C6: in the Word converter's Markdown output the header line, the separator
\* line and the data-row lines of every extracted table stand on consecutive
\* lines, and the reverse converter's table rule reads them as one table.
C6_TableLinesConsecutive ==
    (fpc = "rendered" /\ src.kind = "docx") =>
        LET back == ConvertMarkdown(FormatAsMarkdown(src, extracted)) IN
        \A t \in TablesOf("docx", extracted) :
            t.headers # <<>> =>
                /\ \E k \in 0..(Len(OutLines) - Len(PipeTableLines(t))) :
                      SubSeq(OutLines, k + 1, k + Len(PipeTableLines(t))) = PipeTableLines(t)
                /\ \E n \in DOMAIN back :
                      /\ back[n].kind = "table"
                      /\ back[n].nrows = Len(t.rows)
                      /\ back[n].cols = Len(t.headers)

\* the paragraphs of a Word content model whose style starts with 'Heading'
HeadingParagraphs(c) ==
    SelectSeq(c.paragraphs, LAMBDA p : StartsWith(p.style, HeadingWord))

\* C7: every heading the Word extractor records has a level in 1..6, level 1
\* when the style's suffix is not a number, and its Markdown line starts with
\* between 1 and 6 '#' characters.
C7_HeadingLevelInRange ==
    (fpc \in {"extracted", "rendered"} /\ src.kind = "docx") =>
        LET hp == HeadingParagraphs(extracted) IN
        /\ Len(extracted.headings) = Len(hp)
        /\ \A k \in DOMAIN hp :
              /\ extracted.headings[k].level \in 1..6
              /\ ~ParseInt(Replace(hp[k].style, HeadingPrefix, <<>>)).ok
                    => extracted.headings[k].level = 1
              /\ fpc = "rendered" =>
                    \E n \in 1..6, j \in DOMAIN OutLines :
                        OutLines[j] = Repeat("#", n) \o <<" ">> \o hp[k].text

\* C8: in every sheet the spreadsheet extractor produces, from a CSV file or
\* a workbook, no row is entirely empty and headers equals rows[0] whenever
\* rows is non-empty.
C8_EmptyRowsSkipped ==
    (fpc \in {"extracted", "rendered"} /\ src.kind = "xlsx") =>
        \A n \in DOMAIN extracted.sheets :
            LET s == extracted.sheets[n] IN
            /\ \A k \in DOMAIN s.rows : AnyText(s.rows[k])
            /\ s.rows # <<>> => s.headers = s.rows[1]

\* VISION_ENABLED is set to false
VisionDisabled == LowerText(EnvGet(src.envEnabled, <<"t", "r", "u", "e">>)) = <<"f", "a", "l", "s", "e">>

\* the vision entry is a dictionary with a boolean success
IsVisionResult(v) ==
    /\ v # None
    /\ "success" \in DOMAIN v
    /\ v.success \in BOOLEAN

C9_VisionResultShape ==
    (src.kind = "image" /\ src.readable) =>
        /\ fpc # "raised"
        /\ fpc = "opened" => work.vision_analysis = None
        /\ fpc = "analysed" => IsVisionResult(work.vision_analysis)
        /\ fpc \in {"extracted", "rendered"} =>
              /\ IsVisionResult(extracted.vision_analysis)
              /\ VisionDisabled =>
                    /\ ~extracted.vision_analysis.success
                    /\ "error" \in DOMAIN extracted.vision_analysis
                    /\ IF src.visionAvailable
                       THEN ContainsText(extracted.vision_analysis.error, <<"d", "i", "s", "a", "b", "l", "e", "d">>)
                       ELSE extracted.vision_analysis.error = <<"V", "i", "s", "i", "o", "n", " ", "m", "o", "d", "u", "l", "e", " ", "n", "o", "t", " ", "a", "v", "a", "i", "l", "a", "b", "l", "e">>

\* what the amended C9 asks of the steps: the vision entry of the dictionary
\* under construction changes only from None to a result
C9_AssignedOnceStep ==
    (work # None /\ work' # None /\ work'.vision_analysis # work.vision_analysis) =>
        (work.vision_analysis = None /\ IsVisionResult(work'.vision_analysis))

IsFailingTable(e) == e.tag = <<"t", "b", "l">> /\ e.raises

\* a body element that is a table whose extraction returns
IsGoodTable(e) == e.tag = <<"t", "b", "l">> /\ ~e.raises

\* a body element that is a paragraph with text
IsTextParagraph(e) == e.tag = <<"p">> /\ Strip(e.text) # <<>>

\* C11: when the extraction of a Word document reached its body loop (the
\* debug log could be opened and the document loaded), it completes, and the
\* tables of the content model are exactly the tables whose extraction did
\* not raise, in document order, while every paragraph with text is kept: a
\* table that raises is the only thing left out.
C11_FailingTableAloneOmitted ==
    (src.kind = "docx" /\ src.logWritable /\ src.loadable /\ fpc # "source") =>
        /\ fpc \in {"extracted", "rendered", "json"}
        /\ LET good == SelectSeq(src.body, IsGoodTable)
               paras == SelectSeq(src.body, IsTextParagraph)
           IN /\ extracted.tables = [k \in DOMAIN good |-> DocxExtractTable(good[k].rows)]
              /\ [k \in DOMAIN extracted.paragraphs |-> extracted.paragraphs[k].text]
                    = [k \in DOMAIN paras |-> Strip(paras[k].text)]
              /\ metadata.table_count = Len(good)

\* a failing table stood first in the body and the element after it was
\* extracted
C11_Witness ==
    /\ src.kind = "docx"
    /\ fpc = "extracted"
    /\ Len(src.body) = 2
    /\ IsFailingTable(src.body[1])
    /\ \/ IsGoodTable(src.body[2]) /\ Len(extracted.tables) = 1
       \/ IsTextParagraph(src.body[2]) /\ Len(extracted.paragraphs) = 1

\* ------------------------------------------------------------------------
\* Claims about the web application
\* ------------------------------------------------------------------------

\* the uploaded file is one its registered converter turns into output: the
\* class has get_output and extraction succeeds on the stored body
ConvertsAlone(info, dsk) ==
    /\ HasGetOutput(GetConverter(info.extension))
    /\ DiskRead(dsk, info.upload_path) # None
    /\ DiskRead(dsk, info.upload_path).extracts

\* what one convert_files request did to the k-th file of the session, told
\* from that file alone
ConvertedInIsolation(before, after, result, dsk) ==
    /\ result.id = before.id
    /\ after.id = before.id
    /\ IF before.status = "converted"
       THEN after = before /\ result.status = "already_converted"
       ELSE IF ConvertsAlone(before, dsk)
       THEN /\ after.status = "converted"
            /\ result.status = "converted"
            /\ result.output_filename
                   = GetOutputFilename(before.upload_path.name, before.output_format)
       ELSE /\ after.status = "error"
            /\ "error" \in DOMAIN after
            /\ after.error # ""
            /\ result.status = "error"
            /\ result.error = after.error

C12_ConvertStep ==
    (ConvertFiles /\ reply'.code = 200) =>
        LET before == sessions[reply'.session_id].files
            after == sessions'[reply'.session_id].files
            results == reply'.results
        IN /\ Len(results) = Len(before)
           /\ Len(after) = Len(before)
           /\ \A k \in DOMAIN before :
                 ConvertedInIsolation(before[k], after[k], results[k], disk)

\* C12: every convert_files request returns one result entry per file of the
\* session, in order, and what happens to each file is decided by that file
\* alone: a file whose conversion fails gets status 'error' with its error
\* text, and every other file is converted (or reported as already
\* converted) exactly as it would be without the failing one.
C12_FailureIsolated == [][C12_ConvertStep]_vars

\* a request whose first file failed and whose second file was converted
C12_Witness ==
    /\ reply.handler = "convert"
    /\ reply.code = 200
    /\ Len(reply.results) = 2
    /\ reply.results[1].status = "error"
    /\ reply.results[2].status = "converted"
    /\ sessions[reply.session_id].files[1].status = "error"
    /\ sessions[reply.session_id].files[2].status = "converted"

\* the uploaded body is one the converter can read
BodyExtracts(info) ==
    /\ DiskRead(disk, info.upload_path) # None
    /\ DiskRead(disk, info.upload_path).extracts

\* the payload and the name the claim gives the conversion of this file
ExpectedOutput(info) ==
    IF HasGetOutput(GetConverter(info.extension))
    THEN [type |-> "str",
          name |-> Stem(info.filename) \o <<"_", "A", "I", "_", "c", "o", "n", "v", "e", "r", "t", "e", "r", ".">>
                       \o (IF info.output_format = "json" THEN <<"j", "s", "o", "n">> ELSE <<"m", "d">>)]
    ELSE [type |-> "bytes", name |-> ReverseGetOutputFilename(info.filename)]

\* C13: once convert_files has handled an uploaded file that its registered
\* converter can read, the file has status 'converted', its output filename
\* is '<original_stem>_AI_converter.<md|json>' for a forward converter and
\* '<original_stem>_converted.docx' for the reverse converter, and the
\* stored payload is text for the former and binary for the latter.
C13_ConvertYieldsNamedPayload ==
    \A s \in SessionIds :
        sessions[s] # None =>
            \A k \in DOMAIN sessions[s].files :
                LET info == sessions[s].files[k]
                IN (info.status # "uploaded" /\ BodyExtracts(info)) =>
                       /\ info.status = "converted"
                       /\ info.output_filename = ExpectedOutput(info).name
                       /\ DiskRead(disk, info.converted_path) # None
                       /\ DiskRead(disk, info.converted_path).type
                              = ExpectedOutput(info).type

\* ------------------------------------------------------------------------
\* Claims about the reverse converter
\* ------------------------------------------------------------------------

\* one iteration of the line loop moves the cursor forward
C14_CursorStep == i' > i

\* the cursor never passes the end of the lines by more than the one step
\* that skips a closing fence, and while the loop condition holds the
\* iteration at the cursor is defined and leaves the cursor further on
C14_Progress ==
    /\ i <= Len(lines) + 1
    /\ ~RevDone => LoopBody(lines, i).next > i

\* C14: every iteration of the line loop of _convert_markdown_to_doc,
\* whichever rule handles the line at the cursor, strictly increases the
\* cursor, which is bounded by the number of lines plus one; at every cursor
\* position before the end one rule applies, so the loop ends after at most
\* len(lines) iterations with the cursor at or past the end of the lines.
C14_LoopTerminates == []C14_Progress /\ [][C14_CursorStep]_vars

\* the loop ended on a three-line input whose last rule ran past the end of
\* the lines (a code block without a closing fence)
C14_Witness ==
    /\ RevDone
    /\ Len(lines) = 3
    /\ i = Len(lines) + 1
    /\ doc # <<>>

\* the 0-based indexes after the cursor of the lines that start with a fence
FencesAfter(ls, k) == {j \in (k + 1)..(Len(ls) - 1) : StartsWith(ls[j + 1], Fence)}

\* what the code-block iteration at cursor i did, told from the lines: with
\* no later fence every remaining line became a code paragraph and the
\* cursor is past the end; with a later fence the lines strictly between
\* became code paragraphs and the cursor stands behind the closing fence
C15_CodeBlockStep ==
    CodeBlock =>
        LET later == FencesAfter(lines, i)
            close == IF later = {} THEN Len(lines)
                     ELSE CHOOSE j \in later : \A m \in later : j <= m
            added == SubSeq(doc', Len(doc) + 1, Len(doc'))
        IN /\ SubSeq(doc', 1, Len(doc)) = doc
           /\ Len(added) = close - i - 1
           /\ \A n \in DOMAIN added :
                 added[n] = [kind |-> "code", text |-> lines[i + 1 + n]]
           /\ i' = close + 1
           /\ later = {} => i' > Len(lines)

\* C15: a code-block iteration whose opening fence has no later fence line
\* consumes every remaining line and emits each, in order, as one code
\* paragraph; when a later fence line exists, exactly the lines strictly
\* between the two fences are emitted and the cursor moves behind the
\* closing fence.
C15_FenceConsumption == [][C15_CodeBlockStep]_vars

\* an opening fence on the first of three lines, no closing fence, both
\* remaining lines emitted as code paragraphs and the loop ended
C15_Witness ==
    /\ Len(lines) = 3
    /\ StartsWith(lines[1], Fence)
    /\ FencesAfter(lines, 0) = {}
    /\ RevDone
    /\ doc = <<[kind |-> "code", text |-> lines[2]], [kind |-> "code", text |-> lines[3]]>>

\* the line is N >= 1 '#' characters, whitespace, then text
IsHashLine(l) ==
    /\ PrefixLen(l, {"#"}) >= 1
    /\ SpacesThenText(From(l, PrefixLen(l, {"#"}))).ok

\* the iteration at a line of N '#', whitespace and text (the header block of
\* a converted file aside) adds one heading paragraph of level min(N, 9)
C16_HashLineStep ==
    (i < Len(lines) /\ IsHashLine(LineAt(lines, i)) /\ ~HeaderStripApplies(lines, i)) =>
        LET l == LineAt(lines, i)
            n == PrefixLen(l, {"#"})
        IN /\ Len(doc') = Len(doc) + 1
           /\ doc'[Len(doc')].kind = "heading"
           /\ doc'[Len(doc')].level = MinOf(n, 9)

\* C16: a line of N '#' characters (N >= 1) followed by whitespace and text
\* becomes a heading paragraph of level min(N, 9), for every N.
C16_HeadingLevelClamped == [][C16_HashLineStep]_vars

\* the number of cells of a table line: its pipes, less the closing one
CellCount(l) ==
    LET a == Strip(l)
        pipes == Cardinality({k \in DOMAIN a : a[k] = "|"})
    IN IF Len(a) >= 2 /\ a[Len(a)] = "|" THEN pipes - 1 ELSE pipes

\* the lines from the cursor on that start with a pipe, up to the first line
\* that does not
TableBlock(ls, k) ==
    LET stops == {j \in k..(Len(ls) - 1) : ls[j + 1] = <<>> \/ ls[j + 1][1] # "|"}
        e == IF stops = {} THEN Len(ls) ELSE CHOOSE j \in stops : \A m \in stops : j <= m
    IN SubSeq(ls, k + 1, e)

\* the data lines of a table block: every line after the first, the second
\* left out when it is the separator row
DataLines(block) ==
    IF IsSeparatorRow(block[2]) THEN SubSeq(block, 3, Len(block))
    ELSE SubSeq(block, 2, Len(block))

\* what the table iteration at cursor i added for a block of two or more
\* lines
C17_TableStep ==
    (Table /\ Len(TableBlock(lines, i)) >= 2) =>
        LET block == TableBlock(lines, i)
            data == DataLines(block)
            t == doc'[Len(doc) + 1]
        IN /\ Len(doc') = Len(doc) + 2
           /\ t.kind = "table"
           /\ t.cols = CellCount(block[1])
           /\ t.nrows = 1 + Len(data)
           /\ Len(t.rows) = Len(data)
           /\ \A r \in DOMAIN data :
                 LET cells == ParseTableRow(data[r])
                 IN /\ Len(t.rows[r]) = t.cols
                    /\ \A c \in 1..t.cols :
                          t.rows[r][c] = IF c <= Len(cells) THEN cells[c] ELSE <<>>

\* C17: the table generated from a block of table lines has as many columns
\* as the first line has cells and one row more than there are data lines;
\* a data row with fewer cells than columns has blank trailing cells, and the
\* cells of a data row beyond the column count are dropped.
C17_TableShape == [][C17_TableStep]_vars

\* a two-column table whose only data line has one cell
C17_Witness ==
    /\ Len(doc) = 2
    /\ doc[1].kind = "table"
    /\ doc[1].cols = 2
    /\ doc[1].nrows = 2
    /\ doc[1].rows = <<<<<<"1">>, <<>>>>>>

\* the source text of one run: a plain run is its text, a styled run its
\* inner text between the delimiters of its construct
RunSource(run) ==
    CASE run.style = "plain" -> run.text
      [] run.style = "bold" -> <<"*", "*">> \o run.text \o <<"*", "*">>
      [] run.style = "italic" -> <<"*">> \o run.text \o <<"*">>
      [] run.style = "code" -> <<BT>> \o run.text \o <<BT>>
      [] OTHER -> <<"[">> \o run.text \o <<"]", "(">> \o run.url \o <<")">>

\* the runs the paragraph iteration adds, each put back between the
\* delimiters of its style, spell the line in order: every styled run carries
\* the inner text of the construct of its style and nothing else is lost
C18_ParagraphStep ==
    Paragraph =>
        LET runs == doc'[Len(doc')].runs
        IN /\ Flatten([k \in DOMAIN runs |-> RunSource(runs[k])]) = LineAt(lines, i)
           /\ \A k \in DOMAIN runs : runs[k].text # <<>>

\* C18: _add_formatted_text turns a text into runs in input order; a run made
\* from a matched construct has that construct's style (bold, italic, code,
\* link, the first that applies) and carries its inner text; every other
\* character, a lone or unmatched marker included, is emitted literally in a
\* plain run, so only the delimiters of matched constructs are not emitted.
C18_InlineRunsSpellText == [][C18_ParagraphStep]_vars

\* the cell of a row under the column of index c, '' when the row is shorter
CellUnder(row, c) == IF c <= Len(row) THEN row[c] ELSE <<>>

\* the records view of a sheet entry of the JSON output agrees with the
\* sheet it was built from
RecordsOf(sheet, entry) ==
    /\ Len(entry.records) = Len(sheet.rows) - 1
    /\ \A k \in 1..(Len(sheet.rows) - 1) :
          LET record == entry.records[k]
              row == sheet.rows[k + 1]
          IN /\ <<>> \notin DOMAIN record
             /\ DOMAIN record \subseteq {sheet.headers[c] : c \in DOMAIN sheet.headers}
             /\ \A c \in DOMAIN sheet.headers :
                   sheet.headers[c] # <<>> =>
                       /\ sheet.headers[c] \in DOMAIN record
                       /\ record[sheet.headers[c]] = CellUnder(row, c)

TaggedOutcome(v) ==
    \/ /\ v.success
       /\ "analysis" \in DOMAIN v
       /\ "error" \notin DOMAIN v
    \/ /\ ~v.success
       /\ "error" \in DOMAIN v
       /\ v.error # <<>>
       /\ "analysis" \notin DOMAIN v

\* C20: every vision result the image extractor stores is exactly one of:
\* success=true with an analysis object and no error, or success=false with a
\* non-empty error string and no analysis.
C20_VisionResultTagged ==
    /\ (fpc = "analysed" /\ src.kind = "image") => TaggedOutcome(work.vision_analysis)
    /\ (fpc \in {"extracted", "rendered"} /\ src.kind = "image") =>
           TaggedOutcome(extracted.vision_analysis)

\* ------------------------------------------------------------------------
\* C21
\* ------------------------------------------------------------------------

\* the tables of a content model in the order _format_as_markdown visits
\* them: content.tables, the tables of each page, the table shapes of each
\* slide
RenderedTables(kind, c) ==
    CASE kind = "docx" -> c.tables
      [] kind = "pdf" -> Flatten([n \in DOMAIN c.pages |-> c.pages[n].tables])
      [] OTHER ->
            Flatten([n \in DOMAIN c.slides |->
                LET shapes == SelectSeq(c.slides[n].shapes,
                                        LAMBDA s : "table" \in DOMAIN s)
                IN [k \in DOMAIN shapes |-> shapes[k].table]])

\* the lines one table is to be rendered as: with headers the header line,
\* the separator and rows[1:]; without headers every row; nothing for a table
\* without rows
TableLinesOf(t) ==
    IF t.rows = <<>> THEN <<>>
    ELSE IF t.headers # <<>> THEN PipeTableLines(t)
    ELSE [k \in DOMAIN t.rows |-> PipeRow(t.rows[k])]

\* the lines of the output that start with a pipe
PipeLines == SelectSeq(OutLines, LAMBDA l : StartsWith(l, <<"|">>))

\* C21: in the Markdown output of the Word, PDF and slide-deck converters the
\* pipe lines are, table by table in rendering order, one header line, one
\* separator line of exactly N '---' cells for N header columns, and the rows
\* rows[1:] once each in order; rows[0] is not rendered again as a data row.
C21_TableRenderedOnce ==
    (fpc = "rendered" /\ src.kind \in {"docx", "pdf", "pptx"}) =>
        LET tables == RenderedTables(src.kind, extracted)
        IN PipeLines = Flatten([k \in DOMAIN tables |-> TableLinesOf(tables[k])])

\* a rendered table with two header columns and one data row, in one of the
\* three converters
C21_Witness ==
    /\ fpc = "rendered"
    /\ src.kind \in {"docx", "pdf", "pptx"}
    /\ \E k \in DOMAIN RenderedTables(src.kind, extracted) :
          LET t == RenderedTables(src.kind, extracted)[k]
          IN /\ Len(t.headers) = 2
             /\ Len(t.rows) = 2
             /\ Len(PipeLines) >= 3
             /\ SeparatorRow(2) \in {PipeLines[n] : n \in DOMAIN PipeLines}

\* ------------------------------------------------------------------------
\* C22
\* ------------------------------------------------------------------------

RECURSIVE SumOfLengths(_)
\* the sum of the lengths of the sequences of a sequence
SumOfLengths(seqs) ==
    IF seqs = <<>> THEN 0 ELSE Len(Head(seqs)) + SumOfLengths(Tail(seqs))

\* the counts of the metadata of a JSON output equal the counts recomputed
\* from the content of the same output
CountsRecomputed(kind, out) ==
    LET c == out.content
        m == out.metadata
    IN CASE kind = "docx" ->
              /\ m.word_count = WordCount(c.text)
              /\ m.paragraph_count = Len(c.paragraphs)
              /\ m.table_count = Len(c.tables)
              /\ m.heading_count = Len(c.headings)
         [] kind = "pdf" ->
              /\ m.word_count = WordCount(c.text)
              /\ m.page_count = Len(c.pages)
              /\ m.table_count = Len(c.tables)
         [] kind = "pptx" ->
              /\ m.word_count = WordCount(c.text)
              /\ m.slide_count = Len(c.slides)
         [] kind = "xlsx" ->
              /\ m.sheet_count = Len(c.sheets)
              /\ m.total_rows = SumOfLengths([k \in DOMAIN c.sheets |-> c.sheets[k].raw_rows])
         [] OTHER ->
              /\ m.ocr_word_count = WordCount(c.ocr_text)
              /\ m.base64_size_bytes = Len(c.base64_data)

\* C22: the JSON output of every forward converter carries source.filename
\* equal to the name of the input file, and the counts of its metadata equal
\* the counts recomputed from its content: word_count the number of
\* whitespace-separated words of content.text, the paragraph, table, heading,
\* page, slide and sheet counts the lengths of those sequences, total_rows the
\* sum of the sheets' row counts.
C22_JsonCountsMatch ==
    fpc = "json" =>
        /\ output.source.filename = src.filename
        /\ CountsRecomputed(src.kind, output)

\* a JSON output of a PDF with two pages of text and a table, where the word
\* count is that of the joined page texts
C22_Witness ==
    /\ fpc = "json"
    /\ src.kind = "pdf"
    /\ output.metadata.page_count = 2
    /\ output.metadata.word_count = 4
    /\ output.metadata.table_count >= 1

\* ------------------------------------------------------------------------
\* C23
\* ------------------------------------------------------------------------

\* the cursor is at line 0, line 0 starts with '# ' and line 1 starts with
\* '> Converted from'
AtConvertedHeader ==
    /\ i = 0
    /\ Len(lines) >= 2
    /\ StartsWith(lines[1], HashSpace)
    /\ StartsWith(lines[2], ConvertedFromPrefix)

\* the 0-based indexes, after line 0, of the lines equal to '---'
LaterRuleLines == {j \in 1..(Len(lines) - 1) : lines[j + 1] = RuleLine}

\* the cursor just past the first later line equal to '---' and past one
\* blank line directly after it
PastRuleAndBlank ==
    LET r == (CHOOSE j \in LaterRuleLines : \A m \in LaterRuleLines : j <= m) + 1
    IN IF r < Len(lines) /\ Strip(lines[r + 1]) = <<>> THEN r + 1 ELSE r

\* the cursor is at a line 0 that starts with '# ' while line 1 does not
\* start with '> Converted from'
AtPlainTitle ==
    /\ i = 0
    /\ Len(lines) >= 1
    /\ StartsWith(lines[1], HashSpace)
    /\ ~AtConvertedHeader

\* the iteration added one level-1 heading and moved to line 1
TitleEmittedAsHeading ==
    /\ i' = 1
    /\ Len(doc') = 1
    /\ doc'[1].kind = "heading"
    /\ doc'[1].level = 1

\* the claim as stated, for one iteration
C23_StatedStep ==
    /\ StripHeader => AtConvertedHeader
    /\ (AtConvertedHeader /\ LaterRuleLines # {}) =>
           (doc' = doc /\ i' = PastRuleAndBlank)
    /\ AtPlainTitle => TitleEmittedAsHeading

\* C23 as stated: header stripping fires only at line 0 of a file whose line 0
\* starts with '# ' and whose line 1 starts with '> Converted from', emits
\* nothing and resumes past the first later '---' line and one blank line
\* after it; a line 0 that starts with '# ' without that line 1 is not
\* skipped and becomes a level-1 heading.
C23_AsStated == [][C23_StatedStep]_vars

\* the amended claim, for one iteration
C23_AmendedStep ==
    /\ StripHeader => AtConvertedHeader
    /\ AtConvertedHeader =>
           /\ doc' = doc
           /\ i' = IF LaterRuleLines # {} THEN PastRuleAndBlank ELSE Len(lines) + 1
    /\ AtPlainTitle =>
           IF Len(lines[1]) > 2
           THEN TitleEmittedAsHeading
           ELSE /\ i' = 1
                /\ Len(doc') = 1
                /\ doc'[1].kind = "paragraph"

\* C23 (amended): as stated, except that a line 0 that is '# ' alone, with
\* no text after it, is emitted as a plain paragraph and not as a heading;
\* and when no later line equals '---' the header skip runs to the end of
\* the lines and nothing of the file is emitted.
C23_HeaderStripping == [][C23_AmendedStep]_vars

\* the header block was skipped together with the blank line after its rule,
\* and the line after that was emitted
C23_Witness ==
    /\ Len(lines) = 5
    /\ SubSeq(lines, 1, 4) = HeadedLines
    /\ i = 5
    /\ Len(doc) = 1

\* ------------------------------------------------------------------------
\* C24
\* ------------------------------------------------------------------------

\* the cursor is at the first line of a table block: the line starts with a
\* pipe and the line before it, if any, does not
AtTableBlock ==
    /\ i < Len(lines)
    /\ StartsWith(LineAt(lines, i), <<"|">>)
    /\ i > 0 => ~StartsWith(LineAt(lines, i - 1), <<"|">>)

\* what the iteration at the first line of a table block does: it consumes
\* the block and adds exactly one table, whose header row holds the cells of
\* the first line and which has one data row per remaining line, the second
\* line left out when it is a separator row
C24_TableBlockStep ==
    AtTableBlock =>
        LET block == TableBlock(lines, i)
            added == SubSeq(doc', Len(doc) + 1, Len(doc'))
            tables == SelectSeq(added, LAMBDA e : e.kind = "table")
        IN /\ i' = i + Len(block)
           /\ Len(tables) = 1
           /\ tables[1].header = ParseTableRow(block[1])
           /\ tables[1].nrows =
                 IF Len(block) = 1 THEN 1 ELSE 1 + Len(DataLines(block))

\* C24: every table block, a maximal run of consecutive lines that start
\* with '|', produces exactly one table: the cells of the first line are its
\* header row, a second line is skipped only when it is made of dashes,
\* colons, pipes and whitespace, every remaining line is one data row, and no
\* block is dropped without output.
C24_TableBlockOneTable == [][C24_TableBlockStep]_vars

\* ------------------------------------------------------------------------
\* C25
\* ------------------------------------------------------------------------

\* a body element that is a table
IsBodyTable(e) == e.tag = <<"t", "b", "l">>

\* the paragraphs, headings and text of a Word content model agree with the
\* body of the document, in document order
ParagraphsFollowBody(body, c) ==
    LET paras == SelectSeq(body, IsTextParagraph)
        heads == HeadingParagraphs(c)
    IN /\ Len(c.paragraphs) = Len(paras)
       /\ \A k \in DOMAIN paras :
             /\ c.paragraphs[k].text = Strip(paras[k].text)
             /\ c.paragraphs[k].style =
                   (IF paras[k].style = NoneText THEN <<>> ELSE paras[k].style)
       /\ Len(c.headings) = Len(heads)
       /\ \A k \in DOMAIN heads : c.headings[k].text = heads[k].text
       /\ c.text = Join([k \in DOMAIN c.paragraphs |-> c.paragraphs[k].text], <<NL, NL>>)

\* C25 as stated: the paragraphs are the body paragraphs with text, the
\* tables are the body tables, both in document order, the headings are the
\* paragraphs whose style starts with 'Heading', and text is the paragraph
\* texts joined by blank lines.
C25_AsStated ==
    (src.kind = "docx" /\ fpc \in {"extracted", "rendered", "json"}) =>
        /\ ParagraphsFollowBody(src.body, extracted)
        /\ LET tables == SelectSeq(src.body, IsBodyTable)
           IN /\ Len(extracted.tables) = Len(tables)
              /\ \A k \in DOMAIN tables :
                    extracted.tables[k] = DocxExtractTable(tables[k].rows)

\* C25 (amended): as stated, with content['tables'] listing, in document
\* order, the body tables whose extraction did not raise.
C25_BodyWalkedInOrder ==
    (src.kind = "docx" /\ fpc \in {"extracted", "rendered", "json"}) =>
        /\ ParagraphsFollowBody(src.body, extracted)
        /\ LET tables == SelectSeq(src.body, IsGoodTable)
           IN /\ Len(extracted.tables) = Len(tables)
              /\ \A k \in DOMAIN tables :
                    extracted.tables[k] = DocxExtractTable(tables[k].rows)

\* a table stood before a heading paragraph in the body and both were
\* extracted
C25_Witness ==
    /\ src.kind = "docx"
    /\ fpc = "extracted"
    /\ Len(src.body) = 2
    /\ IsGoodTable(src.body[1])
    /\ IsTextParagraph(src.body[2])
    /\ Len(extracted.tables) = 1
    /\ Len(extracted.headings) = 1
    /\ extracted.text = <<"a">>

\* ------------------------------------------------------------------------
\* Claims about the whole web application (SpecWeb)
\* ------------------------------------------------------------------------

RECURSIVE TotalOfSizes(_)
\* the sum of the 'size' fields of the registered files
TotalOfSizes(files) ==
    IF files = <<>> THEN 0 ELSE Head(files).size + TotalOfSizes(Tail(files))

\* total_size of every session of the registry is the sum of the sizes of
\* its files and within the limit
SizeAccounted ==
    \A x \in SessionIds :
        InRegistry(sessions, x) =>
            /\ sessions[x].total_size = TotalOfSizes(sessions[x].files)
            /\ sessions[x].total_size <= MAX_TOTAL_SIZE

\* an upload request that ends without success: refused before the body is
\* read, or after it
RejectedUpload ==
    \/ reply'.handler = "upload" /\ reply'.code = 400 /\ pending' = pending /\ UploadBeginWeb
    \/ reply'.handler = "upload" /\ reply'.code # 200 /\ pending' # pending /\ UploadResume

C26_RejectedUploadStep ==
    RejectedUpload =>
        \A x \in SessionIds :
            InRegistry(sessions, x) =>
                /\ InRegistry(sessions', x)
                /\ sessions'[x].files = sessions[x].files
                /\ sessions'[x].total_size = sessions[x].total_size

\* C26: whatever upload, delete, clear (and every other) requests ran, in
\* whatever interleaving with suspended uploads, total_size of every session
\* of the registry is the sum of the sizes of its registered files and is at
\* most MAX_TOTAL_SIZE; and an upload that is rejected leaves files and
\* total_size of every session as they were.
C26_SizeAccounting == []SizeAccounted /\ [][C26_RejectedUploadStep]_vars

\* an upload was refused for the size limit while the session held one file,
\* which was not the first file the application stored
C26_Witness ==
    /\ reply.handler = "upload"
    /\ reply.code = 400
    /\ reply.detail = "Total upload size would exceed limit"
    /\ InRegistry(sessions, "s1")
    /\ Len(sessions["s1"].files) = 1
    /\ sessions["s1"].files[1].id # FileIds[1]
    /\ sessions["s1"].total_size = sessions["s1"].files[1].size

\* the file a successful upload reported is registered, as reported, in the
\* dict the registry holds for the session of the request
RegisteredLive(reg, session_id, file_info) ==
    /\ InRegistry(reg, session_id)
    /\ FileIndex(reg[session_id].files, file_info.id) # 0
    /\ reg[session_id].files[FileIndex(reg[session_id].files, file_info.id)] = file_info

C27_UploadStep ==
    (reply'.handler = "upload" /\ reply'.code = 200 /\ pending' # pending /\ UploadResume) =>
        /\ RegisteredLive(sessions', reply'.session_id, reply'.file)
        /\ PathExists(disk', reply'.file.upload_path)

\* C27: an upload that returns success has its file registered in the dict
\* the registry holds for the session at that moment, with its bytes stored
\* at the registered path, whatever ran while the upload was suspended at
\* the read of the body (clear_session and the sweep included).
C27_SuccessfulUploadIsLive == [][C27_UploadStep]_vars

\* the extension a format names
FormatSuffix(format) ==
    IF format = "json" THEN <<".", "j", "s", "o", "n">> ELSE IF format = "md" THEN <<".", "m", "d">> ELSE <<".", "d", "o", "c", "x">>

\* output_format of a converted file names the format of its stored output
FormatNamesOutput(info, dsk) ==
    /\ EndsWith(info.output_filename, FormatSuffix(info.output_format))
    /\ DiskRead(dsk, info.converted_path) # None
    /\ DiskRead(dsk, info.converted_path).by = GetOutputTarget(info.output_format)

\* C28: for every file of a session whose status is 'converted',
\* output_filename ends with '.' + output_format and the stored converted
\* content was produced in output_format; and the format a preview reports
\* is the one its content was produced in.
C28_FormatNamesStoredOutput ==
    /\ \A x \in SessionIds :
          InRegistry(sessions, x) =>
              \A k \in DOMAIN sessions[x].files :
                  sessions[x].files[k].status = "converted" =>
                      FormatNamesOutput(sessions[x].files[k], disk)
    /\ (reply.handler = "preview" /\ reply.code = 200) =>
          reply.preview.by = GetOutputTarget(reply.format)

\* the file of a session that a download or preview reply is about
ServedFile(reg, r) == reg[r.session_id].files[FileIndex(reg[r.session_id].files, r.id)]

\* what one convert_files request does to one file, by its status before
LifecycleOfConvert(before, after, result, dsk, t) ==
    IF before.status = "converted"
    THEN /\ after = before
         /\ result.status = "already_converted"
    ELSE /\ result.status = IF TryConvert(before, dsk).raised THEN "error" ELSE "converted"
         /\ after.status = result.status
         /\ after.status = "converted" =>
               /\ after.converted_path # None
               /\ "output_filename" \in DOMAIN after
               /\ after.converted_at = t

C29_Step ==
    /\ (reply'.handler = "upload" /\ reply'.code = 200 /\ pending' # pending /\ UploadResume) =>
          /\ reply'.file.status = "uploaded"
          /\ reply'.file.converted_path = None
    /\ (reply'.handler = "convert" /\ reply'.code = 200 /\ now' = now /\ ConvertFiles) =>
          LET before == sessions[reply'.session_id].files
              after == sessions'[reply'.session_id].files
          IN /\ Len(after) = Len(before)
             /\ Len(reply'.results) = Len(before)
             /\ \A k \in DOMAIN before :
                   LifecycleOfConvert(before[k], after[k], reply'.results[k], disk, now)
    /\ (reply'.handler \in {"download", "preview"} /\ reply'.code = 200 /\ now' = now
            /\ (DownloadFile \/ PreviewFile)) =>
          /\ ServedFile(sessions, reply').status = "converted"
          /\ ServedFile(sessions, reply').converted_path # None
          /\ PathExists(disk, ServedFile(sessions, reply').converted_path)
          /\ reply'.filename = ServedFile(sessions, reply').output_filename
    /\ \A x \in SessionIds :
          (InRegistry(sessions, x) /\ InRegistry(sessions', x)) =>
              \A k \in DOMAIN sessions[x].files, j \in DOMAIN sessions'[x].files :
                  (sessions[x].files[k].id = sessions'[x].files[j].id
                      /\ sessions[x].files[k].status # sessions'[x].files[j].status)
                  => /\ reply'.handler = "convert"
                     /\ sessions[x].files[k].status \in {"uploaded", "error"}
                     /\ sessions'[x].files[j].status \in {"converted", "error"}

\* C29: a file is registered with status 'uploaded'; only convert_files
\* changes a status, from 'uploaded' or 'error' to 'converted' or 'error';
\* convert_files reports a 'converted' file as 'already_converted' and
\* leaves its entry as it was, and attempts every other file, an 'error'
\* file included, anew; download_file and preview_file answer with the file
\* only when its status is 'converted', and then converted_path and
\* output_filename are set.
C29_StatusLifecycle == [][C29_Step]_vars

\* a convert_files request attempted the first file again, which failed
\* again, and left the second file, converted by an earlier request, alone
C29_Witness ==
    /\ reply.handler = "convert"
    /\ reply.code = 200
    /\ Len(reply.results) = 2
    /\ reply.results[1].status = "error"
    /\ reply.results[2].status = "already_converted"
    /\ sessions[reply.session_id].files[1].status = "error"
    /\ sessions[reply.session_id].files[2].status = "converted"

\* the step is the end of a request of the handler the reply names
HandlerStep ==
    CASE reply'.handler = "session" -> GetSession
      [] reply'.handler = "upload" -> pending' # pending /\ UploadResume
      [] reply'.handler = "set-format" -> SetOutputFormat
      [] reply'.handler = "convert" -> ConvertFiles
      [] reply'.handler = "download" -> DownloadFile
      [] reply'.handler = "preview" -> PreviewFile
      [] reply'.handler = "download-all" -> DownloadAll
      [] reply'.handler = "delete" -> DeleteFile
      [] reply'.handler = "clear" -> ClearSession
      [] OTHER -> FALSE

\* a request succeeded on a session of the registry: for an upload, the one
\* whose dict it registered the file in
SucceededOnSession ==
    /\ reply'.handler # "none"
    /\ reply'.code = 200
    /\ now' = now
    /\ HandlerStep
    /\ reply'.handler = "upload" =>
          RegisteredLive(sessions', reply'.session_id, reply'.file)

C30_Step ==
    /\ \A x \in SessionIds :
          (InRegistry(sessions, x) /\ ~InRegistry(sessions', x)) =>
              /\ now - sessions[x].last_activity > SESSION_TIMEOUT_MINUTES
              /\ \A e \in disk' : e.path.session # x
    /\ SucceededOnSession =>
          /\ InRegistry(sessions', reply'.session_id)
          /\ sessions'[reply'.session_id].last_activity = now

\* C30: a session leaves the registry, with its directory, only in a sweep
\* that finds its last_activity more than SESSION_TIMEOUT_MINUTES old, and
\* every request that succeeds on a session of the registry (session,
\* upload, set-format, convert, download, preview, download-all, delete,
\* clear) leaves its last_activity at the time of the request.
C30_ExpiryAfterInactivity == [][C30_Step]_vars

====
